---- MODULE Spec2Model ----
(***************************************************************************)
(* Model of findTextBounds (src/core/ocr.ts): the OCR text locator of the  *)
(* mobile-pixel MCP server.  One call runs                                 *)
(*   sharp(...).grayscale().threshold(128).toBuffer()                      *)
(*   -> writeFile('debug_ocr_processed.png')                               *)
(*   -> createWorker -> worker.recognize -> search words -> terminate.     *)
(* Texts are tuples of one-character strings so that lower-casing,         *)
(* punctuation stripping and substring search are computed, not assumed.   *)
(***************************************************************************)
EXTENDS Integers, Sequences, FiniteSets, TLC

\* ------------------------------------------------------------------ bounds
MaxCalls == 2
MaxLines == 2
MaxRequests == 2

\* lines 'adb devices' lists, and devices idb or simctl list
MaxDevices == 2

\* calls made on a platform driver
MaxDriverCalls == 2

\* configure_device requests, which may be in flight together
MaxConfigures == 2
MaxLogLines == 6

\* ------------------------------------------------------------------ texts
tGeneral == <<"G","e","n","e","r","a","l">>
tGeneralComma == <<"G","e","n","e","r","a","l",",">>
tGenerally == <<"G","e","n","e","r","a","l","l","y">>
tSettings == <<"S","e","t","t","i","n","g","s">>
tGeneralSettings == tGeneral \o <<" ">> \o tSettings
tHome == <<"H","o","m","e">>
tBuyer == <<"B","u","y","e","r">>
tHomeBuyerWide == tHome \o <<" "," "," ">> \o tBuyer
tHomeBuyerLower == <<"h","o","m","e"," ","b","u","y","e","r">>
tHello == <<"H","e","l","l","o">>
tWorld == <<"W","o","r","l","d">>
tHelloWorld == tHello \o <<" ">> \o tWorld
tWorldLower == <<"w","o","r","l","d">>
tMoon == <<"M","o","o","n">>
tMoDotOn == <<"M","o",".","o","n">>

\* String.prototype.toLowerCase on the letters the fixtures use
LowerChar(c) ==
  CASE c = "G" -> "g"
    [] c = "S" -> "s"
    [] c = "H" -> "h"
    [] c = "B" -> "b"
    [] c = "W" -> "w"
    [] c = "M" -> "m"
    [] OTHER -> c

toLowerCase(s) == [i \in 1..Len(s) |-> LowerChar(s[i])]

\* the character class of  replace(/[.,!?;:]/g, '')
Punctuation == {".", ",", "!", "?", ";", ":"}

IsNotPunctuation(c) == c \notin Punctuation

CleanWord(s) == SelectSeq(toLowerCase(s), IsNotPunctuation)

\* String.prototype.includes
includes(hay, needle) ==
  \E i \in 0..(Len(hay) - Len(needle)) :
    SubSeq(hay, i + 1, i + Len(needle)) = needle

\* ------------------------------------------------------------------ boxes
Box(x0, y0, x1, y1) == [x0 |-> x0, y0 |-> y0, x1 |-> x1, y1 |-> y1]

NoBounds == [x |-> -1, y |-> -1, width |-> -1, height |-> -1]

\* a variant of Bounds that forgets to subtract the origin from the far corner
BoundsFarCorner(bbox) ==
  [x |-> bbox.x0, y |-> bbox.y0, width |-> bbox.x1, height |-> bbox.y1]

\* ocr.ts 63-64: the returned box of a matched word
Bounds(bbox) ==
  [x |-> bbox.x0, y |-> bbox.y0,
   width |-> bbox.x1 - bbox.x0, height |-> bbox.y1 - bbox.y0]

\* ------------------------------------------------------- recognizer output
Present(items) == [present |-> TRUE, items |-> items]
Absent == [present |-> FALSE, items |-> <<>>]

Word(text, bbox) == [text |-> text, bbox |-> bbox]
Line(text, bbox, words) == [text |-> text, bbox |-> bbox, words |-> words]

\* a line made of one word with the line's own box
OneWordLine(text, bbox) == Line(text, bbox, Present(<<Word(text, bbox)>>))

LinePool ==
  { OneWordLine(tGeneral, Box(20, 40, 220, 100)),
    OneWordLine(tGeneral, Box(16, 380, 386, 432)),
    OneWordLine(tGenerally, Box(0, 0, 90, 20)),
    OneWordLine(tGeneralComma, Box(30, 500, 130, 530)),
    Line(tGeneralSettings, Box(16, 120, 300, 150),
         Present(<<Word(tGeneral, Box(16, 120, 120, 150)),
                   Word(tSettings, Box(130, 120, 300, 150))>>)),
    Line(tHomeBuyerWide, Box(10, 600, 210, 640),
         Present(<<Word(tHome, Box(10, 600, 80, 640)),
                   Word(tBuyer, Box(140, 600, 210, 640))>>)),
    Line(tHelloWorld, Box(10, 10, 100, 30),
         Present(<<Word(tHello, Box(10, 10, 50, 30)),
                   Word(tWorld, Box(60, 10, 100, 30))>>)),
    Line(tHelloWorld, Box(10, 10, 100, 30), Absent),
    OneWordLine(tMoDotOn, Box(900, 1900, 1000, 2000)),
    OneWordLine(tGeneral, Box(15, 701, 120, 750)) }

SearchTexts == {tGeneral, tHomeBuyerLower, tWorldLower, tMoon}

Images ==
  { [decodable |-> TRUE, width |-> 1000, height |-> 2000],
    [decodable |-> TRUE, width |-> 2000, height |-> 1000],
    [decodable |-> TRUE, width |-> 0, height |-> 0],
    [decodable |-> FALSE, width |-> 0, height |-> 0] }

\* one preprocessed copy of the screenshot: scale = scaleNum / scaleDen is its
\* size relative to the screenshot, offsetY the rows cropped from the top
Variant(name, scaleNum, scaleDen, offsetY) ==
  [name |-> name, scaleNum |-> scaleNum, scaleDen |-> scaleDen,
   offsetY |-> offsetY]

\* a variant list that resizes the copy to a width of 2000
VariantsResized(image) == <<Variant("threshold", 2000, image.width, 0)>>

\* ocr.ts 17-24: the one copy that is made, grayscale().threshold(128) of
\* the whole image: no resize (scale 1), no extract (offsetY 0), and no
\* metadata() is read
Variants(image) == <<Variant("threshold", 1, 1, 0)>>

\* the block -> paragraph -> line hierarchy of result.data; a level that the
\* recognizer left out is Absent
Paragraph(lines) == [lines |-> lines]
Block(paragraphs) == [paragraphs |-> paragraphs]
Data(blocks) == [blocks |-> blocks]

NoData == Data(Absent)

Shapes == {"flat", "split", "gaps", "noBlocks"}

Shaped(shape, ls) ==
  CASE shape = "flat" ->
         Data(Present(<<Block(Present(<<Paragraph(Present(ls))>>))>>))
    [] shape = "split" ->
         Data(Present([i \in 1..Len(ls) |->
                Block(Present(<<Paragraph(Present(<<ls[i]>>))>>))]))
    [] shape = "gaps" ->
         Data(Present(<<Block(Absent),
                        Block(Present(<<Paragraph(Absent),
                                        Paragraph(Present(ls))>>))>>))
    [] OTHER -> NoData

LineSeqs == UNION {[1..n -> LinePool] : n \in 0..MaxLines}

OcrOutputs == {Shaped(shape, ls) : shape \in Shapes, ls \in LineSeqs}

\* --------------------------------------------------------------- the search
RECURSIVE Flatten(_)
Flatten(ss) == IF Len(ss) = 0 THEN <<>> ELSE Head(ss) \o Flatten(Tail(ss))

\* ocr.ts 55-56: if (!line.words) continue; for (const word of line.words)
WordsOfLine(line) == IF line.words.present THEN line.words.items ELSE <<>>

\* ocr.ts 53-54: if (!paragraph.lines) continue; for (const line of ...)
LinesOfParagraph(p) == IF p.lines.present THEN p.lines.items ELSE <<>>

\* ocr.ts 51-52: if (!block.paragraphs) continue; for (const paragraph of ...)
ParagraphsOfBlock(b) == IF b.paragraphs.present THEN b.paragraphs.items ELSE <<>>

\* ocr.ts 44: const blocks = data.blocks || []
BlocksOf(data) == IF data.blocks.present THEN data.blocks.items ELSE <<>>

\* a traversal that stops at the first block without paragraphs (break where
\* the code has continue)
LinesOfStopAtGap(data) ==
  LET bs == BlocksOf(data)
      gaps == {i \in 1..Len(bs) : ~bs[i].paragraphs.present}
      n == IF gaps = {} THEN Len(bs)
           ELSE (CHOOSE g \in gaps : \A h \in gaps : g <= h) - 1
      ps == Flatten([i \in 1..n |-> ParagraphsOfBlock(bs[i])])
  IN  Flatten([i \in 1..Len(ps) |-> LinesOfParagraph(ps[i])])

\* ocr.ts 50-54: the lines the nested loops reach
LinesOf(data) ==
  LET bs == BlocksOf(data)
      ps == Flatten([i \in 1..Len(bs) |-> ParagraphsOfBlock(bs[i])])
  IN  Flatten([i \in 1..Len(ps) |-> LinesOfParagraph(ps[i])])

\* the words in the order the nested loops of ocr.ts 50-56 visit them
VisitedWords(data) ==
  LET ls == LinesOf(data)
  IN  Flatten([i \in 1..Len(ls) |-> WordsOfLine(ls[i])])

\* the containment test with its operands swapped
WordMatchesSwapped(word, text) ==
  includes(toLowerCase(text), CleanWord(word.text))

\* ocr.ts 40, 57, 61
WordMatches(word, text) == includes(CleanWord(word.text), toLowerCase(text))

Min(S) == CHOOSE m \in S : \A n \in S : m <= n

NotFound == [found |-> FALSE, bounds |-> NoBounds]

\* ocr.ts 50-71 on the visited words: return at the first match, else null
SearchWords(words, text) ==
  LET hits == {i \in 1..Len(words) : WordMatches(words[i], text)}
  IN  IF hits = {} THEN NotFound
      ELSE [found |-> TRUE, bounds |-> Bounds(words[Min(hits)].bbox)]

\* ------------------------------------------------------------------ state
VARIABLES
  pc,            \* where the current findTextBounds call stands
  calls,         \* calls started so far
  img,           \* imageBuffer of the current call
  searchText,    \* searchText of the current call
  processed,     \* the preprocessed copies made by this call
  debugFile,     \* debug_ocr_processed.png exists in the working directory
  created,       \* workers constructed so far (the last worker's identity)
  worker,        \* the worker of the current call, 0 before createWorker
  live,          \* workers constructed and not yet terminated
  recognized,    \* outcomes of worker.recognize in this call: "ok" | "failed"
  ocr,           \* result.data of the last successful recognize of this call
  pending,       \* what the try block produced, held while finally runs
  outcome,       \* how the call settled: "found" | "null" | "error"
  result,        \* the bounds the call resolved with
  errKind,       \* which step rejected
  \* ---- the MCP server (index.ts) and its ProxyDriver
  cliArgs,       \* process.argv as parseArgs reads it
  configFile,    \* mobile-pixel.config.json in the working directory
  mpc,           \* where main() stands
  currentConfig, \* ProxyDriver.currentConfig
  currentDriver, \* ProxyDriver.currentDriver: "null" or the platform's driver
  \* ---- one tool request
  tool,          \* the tool being handled
  targ,          \* its arguments, and the handler's locals derived from them
  tpc,           \* where the handler stands
  located,       \* what findTextBounds gave the handler
  driverOps,     \* operations that reached the platform driver, in order
  shot,          \* rawBuffer held by captureAndFormatResponse
  response,      \* what the handler answered
  requests,      \* requests started so far
  screen,        \* version of what the device displays
  logs,          \* the lines driver.getAppLogs gave the handler
  \* ---- one call of a platform driver (android.ts, ios.ts)
  denv,          \* what adb, idb and xcrun find on the host
  dcall,         \* the method called and its arguments
  dpc,           \* where the call stands
  dtmp,          \* the locals of the call
  commands,      \* the commands the call has executed, in order
  dret,          \* how the call settled
  instance,      \* the driver object the calls are made on
  \* ---- configure_device requests in flight and the ProxyDriver they share
  confs,         \* per request: where it stands, its configuration, its answer
  driverOf,      \* the request whose reconfigure created currentDriver, and
                 \* how many reconfigure calls had started when it did
  started,       \* configure_device requests started so far
  epoch,         \* reconfigure calls started so far
  lastOp         \* the last device operation called on the ProxyDriver

ocrVars == <<pc, calls, img, searchText, processed, debugFile, created, worker,
            live, recognized, ocr, pending, outcome, result, errKind>>

serverVars == <<cliArgs, configFile, mpc, currentConfig, currentDriver>>

toolVars == <<tool, targ, tpc, located, driverOps, shot, response, requests,
             screen>>

platformVars == <<denv, dcall, dpc, dtmp, commands, dret, instance>>

proxyVars == <<confs, driverOf, started, epoch, lastOp>>

driverVars == <<logs, platformVars, proxyVars>>

vars == <<ocrVars, serverVars, toolVars, driverVars>>

\* ---- values of the driver variables while nothing has been called
None == "none"

\* a command that could not be executed, or exited with an error
Failed == "failed"

\* an optional string of the configuration: undefined, or a text, '' included
Undefined == [defined |-> FALSE, text |-> <<>>]
Defined(text) == [defined |-> TRUE, text |-> text]

\* what a command that lists devices prints, when it succeeds
Listing(lines) == [ok |-> TRUE, lines |-> lines]
NoListing == [ok |-> FALSE, lines |-> <<>>]

NoEnv ==
  [adb |-> FALSE, devices |-> NoListing, idb |-> FALSE,
   targets |-> NoListing, describe |-> Failed, simctl |-> NoListing]

NoDriverCall == [method |-> None, arg |-> None, n |-> 0]

NoTmp ==
  [isRunning |-> FALSE, component |-> <<>>, hasIdb |-> FALSE, idbOk |-> FALSE,
   detectedUdid |-> None, density |-> 1]

NoReturn == [kind |-> None, error |-> None, action |-> None]

NoInstance ==
  [platform |-> None, deviceId |-> None, hasIdb |-> FALSE, density |-> 1]

NoOp == [method |-> None, outcome |-> None]

NoLogs ==
  [state |-> None, filter |-> Undefined, lines |-> <<>>, recent |-> <<>>]

DriverIdle ==
  /\ logs = NoLogs
  /\ denv = NoEnv
  /\ dcall = NoDriverCall
  /\ dpc = "idle"
  /\ dtmp = NoTmp
  /\ commands = <<>>
  /\ dret = NoReturn
  /\ instance = NoInstance
  /\ confs = <<>>
  /\ driverOf = [id |-> 0, epoch |-> 0]
  /\ started = 0
  /\ epoch = 0
  /\ lastOp = NoOp

NoPending == [outcome |-> "none", bounds |-> NoBounds, errKind |-> "none"]

OcrInit ==
  /\ pc = "idle"
  /\ calls = 0
  /\ img \in Images
  /\ searchText \in SearchTexts
  /\ processed = <<>>
  /\ debugFile = FALSE
  /\ created = 0
  /\ worker = 0
  /\ live = {}
  /\ recognized = <<>>
  /\ ocr = NoData
  /\ pending = NoPending
  /\ outcome = "none"
  /\ result = NoBounds
  /\ errKind = "none"

\* ocr.ts 11-14: findTextBounds(imageBuffer, searchText) is entered
findTextBounds(image, text) ==
  /\ pc \in {"idle", "done"}
  /\ calls' = calls + 1
  /\ img' = image
  /\ searchText' = text
  /\ pc' = "toBuffer"
  /\ processed' = <<>>
  /\ worker' = 0
  /\ recognized' = <<>>
  /\ ocr' = NoData
  /\ pending' = NoPending
  /\ outcome' = "none"
  /\ result' = NoBounds
  /\ errKind' = "none"
  /\ UNCHANGED <<debugFile, created, live>>

\* a direct caller (scripts/e2e_ios_settings.ts 46) invokes findTextBounds
Call(image, text) ==
  /\ calls < MaxCalls
  /\ findTextBounds(image, text)
  /\ UNCHANGED <<serverVars, toolVars, driverVars>>

\* the call rejects before a worker exists: nothing to clean up
Reject(kind) ==
  /\ pc' = "done"
  /\ outcome' = "error"
  /\ errKind' = kind
  /\ result' = NoBounds

\* a decode failure that goes on to the next step as if nothing happened
ToBufferFailIgnored ==
  /\ pc = "toBuffer"
  /\ ~img.decodable
  /\ pc' = "writeFile"
  /\ UNCHANGED <<calls, img, searchText, processed, debugFile, created, worker, live,
                 recognized, ocr, pending, outcome, result, errKind>>
  /\ UNCHANGED <<serverVars, toolVars, driverVars>>

\* ocr.ts 17-24: sharp(imageBuffer).grayscale().threshold(128).toBuffer() rejects
ToBufferFail ==
  /\ pc = "toBuffer"
  /\ ~img.decodable
  /\ Reject("decode")
  /\ UNCHANGED <<calls, img, searchText, processed, debugFile, created, worker, live,
                 recognized, ocr, pending>>
  /\ UNCHANGED <<serverVars, toolVars, driverVars>>

\* ocr.ts 17-24: the one preprocessed buffer (full image, grayscale, threshold)
ToBufferOk ==
  /\ pc = "toBuffer"
  /\ img.decodable
  /\ processed' = Variants(img)
  /\ pc' = "writeFile"
  /\ UNCHANGED <<calls, img, searchText, debugFile, created, worker, live,
                 recognized, ocr, pending, outcome, result, errKind>>
  /\ UNCHANGED <<serverVars, toolVars, driverVars>>

\* ocr.ts 27-28: writeFile('debug_ocr_processed.png', processedBuffer)
WriteFileOk ==
  /\ pc = "writeFile"
  /\ debugFile' = TRUE
  /\ pc' = "createWorker"
  /\ UNCHANGED <<calls, img, searchText, processed, created, worker, live,
                 recognized, ocr, pending, outcome, result, errKind>>
  /\ UNCHANGED <<serverVars, toolVars, driverVars>>

\* ocr.ts 27-28: the write rejects (working directory not writable)
WriteFileFail ==
  /\ pc = "writeFile"
  /\ Reject("fs")
  /\ UNCHANGED <<calls, img, searchText, processed, debugFile, created, worker, live,
                 recognized, ocr, pending>>
  /\ UNCHANGED <<serverVars, toolVars, driverVars>>

\* ocr.ts 31-33: const worker = await createWorker('eng', 1, {})
CreateWorkerOk ==
  /\ pc = "createWorker"
  /\ created' = created + 1
  /\ worker' = created + 1
  /\ live' = live \cup {created + 1}
  /\ pc' = "recognize"
  /\ UNCHANGED <<calls, img, searchText, processed, debugFile,
                 recognized, ocr, pending, outcome, result, errKind>>
  /\ UNCHANGED <<serverVars, toolVars, driverVars>>

\* ocr.ts 31-33: createWorker rejects; the try block is never entered
CreateWorkerFail ==
  /\ pc = "createWorker"
  /\ Reject("worker")
  /\ UNCHANGED <<calls, img, searchText, processed, debugFile, created, worker, live,
                 recognized, ocr, pending>>
  /\ UNCHANGED <<serverVars, toolVars, driverVars>>

\* what the try block leaves for the finally block after a search
Searched(data, text) ==
  LET s == SearchWords(VisitedWords(data), text)
  IN  [outcome |-> IF s.found THEN "found" ELSE "null",
       bounds |-> s.bounds, errKind |-> "none"]

\* ocr.ts 37-71: recognize resolves, the words are searched, the try block
\* returns; control passes to finally
RecognizeOk(data) ==
  /\ pc = "recognize"
  /\ worker \in live
  /\ Len(recognized) < Len(processed)
  /\ recognized' = Append(recognized, "ok")
  /\ ocr' = data
  /\ pending' = Searched(data, searchText)
  /\ pc' = "finally"
  /\ UNCHANGED <<calls, img, searchText, processed, debugFile, created, worker, live,
                 outcome, result, errKind>>
  /\ UNCHANGED <<serverVars, toolVars, driverVars>>

\* a recognizer failure swallowed into "not found"
RecognizeFailAsNull ==
  /\ pc = "recognize"
  /\ worker \in live
  /\ Len(recognized) < Len(processed)
  /\ recognized' = Append(recognized, "failed")
  /\ pending' = [outcome |-> "null", bounds |-> NoBounds, errKind |-> "none"]
  /\ pc' = "finally"
  /\ UNCHANGED <<calls, img, searchText, processed, debugFile, created, worker, live,
                 ocr, outcome, result, errKind>>
  /\ UNCHANGED <<serverVars, toolVars, driverVars>>

\* a recognizer failure that rejects the call without running the cleanup
RecognizeFailNoCleanup ==
  /\ pc = "recognize"
  /\ worker \in live
  /\ Len(recognized) < Len(processed)
  /\ recognized' = Append(recognized, "failed")
  /\ Reject("recognize")
  /\ UNCHANGED <<calls, img, searchText, processed, debugFile, created, worker, live,
                 ocr, pending>>
  /\ UNCHANGED <<serverVars, toolVars, driverVars>>

\* ocr.ts 35-37, 72: recognize rejects; no catch clause, so the rejection is
\* kept while finally runs
RecognizeFail ==
  /\ pc = "recognize"
  /\ worker \in live
  /\ Len(recognized) < Len(processed)
  /\ recognized' = Append(recognized, "failed")
  /\ pending' = [outcome |-> "error", bounds |-> NoBounds,
                 errKind |-> "recognize"]
  /\ pc' = "finally"
  /\ UNCHANGED <<calls, img, searchText, processed, debugFile, created, worker, live,
                 ocr, outcome, result, errKind>>
  /\ UNCHANGED <<serverVars, toolVars, driverVars>>

\* ocr.ts 72-75: await worker.terminate(), then the call settles with what
\* the try block produced
Terminate ==
  /\ pc = "finally"
  /\ live' = live \ {worker}
  /\ outcome' = pending.outcome
  /\ result' = pending.bounds
  /\ errKind' = pending.errKind
  /\ pc' = "done"
  /\ UNCHANGED <<calls, img, searchText, processed, debugFile, created, worker,
                 recognized, ocr, pending>>
  /\ UNCHANGED <<serverVars, toolVars, driverVars>>

\* ------------------------------------------------ server: configuration
\* a || b on values where None stands for undefined
Or(a, b) == IF a # None THEN a ELSE b

Config(platform, deviceId, appId) ==
  [platform |-> platform, deviceId |-> deviceId, appId |-> appId,
   mainActivity |-> Undefined]

NoConfig == Config(None, None, None)

\* what mobile-pixel.config.json can hold: nothing, text that is not JSON, or
\* an object with any of the fields
ConfigFiles ==
  {[state |-> "missing", content |-> NoConfig],
   [state |-> "invalid", content |-> NoConfig]}
  \cup {[state |-> "valid", content |-> Config(pl, d, a)] :
          pl \in {None, "auto", "android", "ios"},
          d \in {None, "file-device"},
          a \in {None, "com.file.app"}}

\* index.ts 21-45: what parseArgs can see on the command line; None when the
\* flag is not given
CliArgSets ==
  {[platform |-> pl, deviceId |-> d] :
     pl \in {None, "auto", "android", "ios", "windows"},
     d \in {None, "cli-device"}}

\* index.ts 33, 39, 41-44: parseArgs
parseArgs(argv) ==
  [platform |-> Or(argv.platform, "auto"), deviceId |-> argv.deviceId]

\* config.ts 14-23: loadConfig
loadConfig(file) ==
  IF file.state = "valid" THEN file.content
  ELSE Config("auto", None, None)

\* index.ts 52-55: the configuration main() hands to the driver
MergeConfig(args, fileConfig) ==
  Config(Or(Or(IF args.platform # "auto" THEN args.platform ELSE None,
               fileConfig.platform), "auto"),
         Or(args.deviceId, fileConfig.deviceId),
         fileConfig.appId)

ServerIdle ==
  /\ cliArgs = [platform |-> None, deviceId |-> None]
  /\ configFile = [state |-> "missing", content |-> NoConfig]
  /\ mpc = "off"
  /\ currentConfig = NoConfig
  /\ currentDriver = "null"

\* index.ts 48, config.ts 30-35: ensureConfig writes {platform: 'auto'} when
\* the file does not exist
EnsureConfig ==
  /\ mpc = "start"
  /\ configFile' = IF configFile.state = "missing"
                   THEN [state |-> "valid",
                         content |-> Config("auto", None, None)]
                   ELSE configFile
  /\ mpc' = "ensured"
  /\ UNCHANGED <<cliArgs, currentConfig, currentDriver, ocrVars, toolVars,
                 driverVars>>

\* index.ts 49-67, ProxyDriver.reconfigure 351-353: parseArgs, loadConfig, the merge, and
\* the entry of driver.reconfigure, which stores the configuration and drops
\* the current driver before it first awaits
MainReconfigure ==
  /\ mpc = "ensured"
  /\ currentConfig' = MergeConfig(parseArgs(cliArgs), loadConfig(configFile))
  /\ currentDriver' = "null"
  /\ mpc' = "creating"
  /\ UNCHANGED <<cliArgs, configFile, ocrVars, toolVars, driverVars>>

\* ProxyDriver.reconfigure 355-370, detectPlatform 379-400: the platform is detected when it is 'auto' or missing,
\* and the platform's driver is created
DriverCreated(platform) ==
  /\ mpc = "creating"
  /\ platform \in {"android", "ios"}
  /\ currentConfig.platform \in {None, "auto", platform}
  /\ currentDriver' = platform
  /\ mpc' = "serving"
  /\ UNCHANGED <<cliArgs, configFile, currentConfig, ocrVars, toolVars,
                 driverVars>>

\* ProxyDriver.reconfigure 364-376: create throws, or the platform is unsupported; the error is
\* logged and swallowed
DriverNotCreated ==
  /\ mpc = "creating"
  /\ mpc' = "serving"
  /\ UNCHANGED <<cliArgs, configFile, currentConfig, currentDriver, ocrVars,
                 toolVars, driverVars>>

MainInit ==
  /\ OcrInit
  /\ img = [decodable |-> FALSE, width |-> 0, height |-> 0]
  /\ searchText = tMoon
  /\ cliArgs \in CliArgSets
  /\ configFile \in ConfigFiles
  /\ mpc = "start"
  /\ currentConfig = NoConfig
  /\ currentDriver = "null"
  /\ tool = None
  /\ targ = [text |-> <<>>, x |-> 0, y |-> 0, appId |-> None]
  /\ tpc = "idle"
  /\ located = NotFound
  /\ driverOps = <<>>
  /\ shot = [ver |-> -1, image |-> [decodable |-> FALSE, width |-> 0, height |-> 0]]
  /\ response = [kind |-> None, isError |-> FALSE, prefix |-> None,
                 message |-> None, hasImage |-> FALSE, imageVer |-> -1,
                 found |-> None, at |-> [x |-> -1, y |-> -1]]
  /\ requests = 0
  /\ screen = 0
  /\ DriverIdle

MainNext ==
  \/ EnsureConfig
  \/ MainReconfigure
  \/ \E platform \in {"android", "ios"} : DriverCreated(platform)
  \/ DriverNotCreated

MainSpec == MainInit /\ [][MainNext]_vars

\* ------------------------------------------------------ server: tools
ActionTools == {"tap", "swipe", "type_text", "home", "launch_app", "tap_text"}

\* the tools that take an optional app_id
AppIdTools == {"launch_app", "check_app_status", "uninstall_app", "reset_app"}

\* the tools that answer with a text and no picture after their driver call
TextOnlyTools == {"check_app_status", "uninstall_app", "reset_app"}

Tools == ActionTools \cup TextOnlyTools \cup {"find_text", "get_screen"}

\* the action name each handler passes to handleError
ActionName(t) ==
  CASE t = "tap" -> "Tap"
    [] t = "swipe" -> "Swipe"
    [] t = "type_text" -> "Type text"
    [] t = "home" -> "Home button"
    [] t = "launch_app" -> "Launch app"
    [] t = "tap_text" -> "Tap text"
    [] t = "find_text" -> "Find text"
    [] t = "check_app_status" -> "Check app status"
    [] t = "uninstall_app" -> "Uninstall app"
    [] t = "reset_app" -> "Reset app"
    [] OTHER -> "Screenshot capture"

\* the DeviceDriver method each action tool awaits
DriverMethod(t) ==
  CASE t = "tap" -> "tap"
    [] t = "swipe" -> "swipe"
    [] t = "type_text" -> "inputText"
    [] t = "home" -> "home"
    [] t = "launch_app" -> "launchApp"
    [] t = "check_app_status" -> "isAppRunning"
    [] t = "uninstall_app" -> "uninstallApp"
    [] t = "reset_app" -> "resetApp"
    [] OTHER -> "tap"

NoArgs == [text |-> <<>>, x |-> 0, y |-> 0, appId |-> None]

ToolTexts == {tGeneral, tMoon}

ToolArgs(t) ==
  CASE t \in {"tap_text", "find_text"} ->
         {[NoArgs EXCEPT !.text = txt] : txt \in ToolTexts}
    [] t = "tap" -> {[NoArgs EXCEPT !.x = 5, !.y = 7]}
    [] t \in AppIdTools ->
         {[NoArgs EXCEPT !.appId = a] : a \in {None, "com.arg.app"}}
    [] OTHER -> {NoArgs}

\* what the recognizer may report for a screenshot taken by a tool
ToolOcrOutputs ==
  {Shaped("flat", ls) : ls \in UNION {[1..n -> LinePool] : n \in 0..1}}

NoImage == [decodable |-> FALSE, width |-> 0, height |-> 0]

NoShot == [ver |-> -1, image |-> NoImage]

NoAt == [x |-> -1, y |-> -1]

NoResponse ==
  [kind |-> None, isError |-> FALSE, prefix |-> None, message |-> None,
   hasImage |-> FALSE, imageVer |-> -1, found |-> None, at |-> NoAt]

\* errors.ts: every error class of the server extends MobileSnapError; what
\* sharp, tesseract and the file system throw does not
MobileSnapErrors ==
  {"MobileSnapError", "DeviceConnectionError", "DeviceActionError",
   "ValidationError", "ToolNotAvailableError"}

\* index.ts 132-146: handleError
handleError(error, action) ==
  [NoResponse EXCEPT
     !.kind = "error", !.isError = TRUE,
     !.prefix = IF error \in MobileSnapErrors THEN None ELSE action,
     !.message = error]

\* the handler's promise rejects: no response object is produced by it
Rejected(error) == [NoResponse EXCEPT !.kind = "rejected", !.message = error]

\* index.ts 115-128: the response captureAndFormatResponse builds
TextAndImage(message, ver) ==
  [NoResponse EXCEPT !.kind = "ok", !.message = message,
                     !.hasImage = TRUE, !.imageVer = ver]

\* index.ts 296-297, 342-343: Math.round(bounds.x + bounds.width / 2), which
\* rounds a half up
Center(bounds) ==
  [x |-> bounds.x + (bounds.width + 1) \div 2,
   y |-> bounds.y + (bounds.height + 1) \div 2]

DriverOp(method, at, ok, ver) ==
  [method |-> method, at |-> at, ok |-> ok, ver |-> ver, app |-> None]

\* ProxyDriver 402-410: ensureDriver
ensureDriver == currentDriver # "null"

\* the handler returns
Respond(r) ==
  /\ response' = r
  /\ tpc' = "responded"

\* the locals of a finished findTextBounds call are gone; the file it wrote
\* and the counters stay
ReleaseCall ==
  /\ pc' = "idle"
  /\ img' = NoImage
  /\ searchText' = tMoon
  /\ processed' = <<>>
  /\ worker' = 0
  /\ recognized' = <<>>
  /\ ocr' = NoData
  /\ pending' = NoPending
  /\ outcome' = "none"
  /\ result' = NoBounds
  /\ errKind' = "none"
  /\ UNCHANGED <<calls, debugFile, created, live>>

\* the client calls a tool
Request(t, a) ==
  /\ mpc = "serving"
  /\ tpc \in {"idle", "responded"}
  /\ requests < MaxRequests
  /\ requests' = requests + 1
  /\ tool' = t
  /\ targ' = a
  /\ located' = NotFound
  /\ driverOps' = <<>>
  /\ shot' = NoShot
  /\ response' = NoResponse
  /\ tpc' = CASE t \in {"tap", "swipe", "type_text", "home"} -> "act"
              [] t \in AppIdTools -> "config"
              [] t \in {"tap_text", "find_text"} -> "capture"
              [] OTHER -> "post"
  /\ UNCHANGED <<screen, ocrVars, serverVars, driverVars>>

\* a handler that takes the app id main() read when the server started
LaunchResolveAtStartup ==
  /\ tpc = "config"
  /\ LET target == Or(targ.appId, currentConfig.appId)
     IN  IF target = None
         THEN Respond(handleError("ValidationError", ActionName(tool)))
              /\ UNCHANGED targ
         ELSE /\ targ' = [targ EXCEPT !.appId = target]
              /\ tpc' = "act"
              /\ UNCHANGED response
  /\ UNCHANGED <<tool, located, driverOps, shot, requests, screen, ocrVars,
                 serverVars, driverVars>>

\* index.ts 222-226, 250-254, 422-426, 450-454: the handler reads the
\* configuration file and resolves the app id, ValidationError if none
LaunchResolve ==
  /\ tpc = "config"
  /\ LET target == Or(targ.appId, loadConfig(configFile).appId)
     IN  IF target = None
         THEN Respond(handleError("ValidationError", ActionName(tool)))
              /\ UNCHANGED targ
         ELSE /\ targ' = [targ EXCEPT !.appId = target]
              /\ tpc' = "act"
              /\ UNCHANGED response
  /\ UNCHANGED <<tool, located, driverOps, shot, requests, screen, ocrVars,
                 serverVars, driverVars>>

\* the awaited driver method throws in ensureDriver: no platform driver
ActNoDriver ==
  /\ tpc = "act"
  /\ ~ensureDriver
  /\ Respond(handleError("DeviceConnectionError", ActionName(tool)))
  /\ UNCHANGED <<tool, targ, located, driverOps, shot, requests, screen,
                 ocrVars, serverVars, driverVars>>

\* index.ts 170, 190, 206, 227, 276, 344: await driver.<method>(...) resolves;
\* the device now shows something new
ActOk ==
  /\ tpc = "act"
  /\ ensureDriver
  /\ screen' = screen + 1
  /\ driverOps' = Append(driverOps,
       [DriverOp(DriverMethod(tool), [x |-> targ.x, y |-> targ.y], TRUE,
                 screen + 1) EXCEPT !.app = targ.appId])
  /\ IF tool \in TextOnlyTools
     THEN Respond([NoResponse EXCEPT !.kind = "ok", !.message = "done"])
     ELSE /\ tpc' = "post"
          /\ UNCHANGED response
  /\ UNCHANGED <<tool, targ, located, shot, requests, ocrVars, serverVars,
                 driverVars>>

\* the driver method rejects: caught, handleError. isAppRunning never
\* rejects (android.ts 219-221, ios.ts 234-236)
ActFail(error) ==
  /\ tpc = "act"
  /\ ensureDriver
  /\ tool # "check_app_status"
  /\ driverOps' = Append(driverOps,
       [DriverOp(DriverMethod(tool), [x |-> targ.x, y |-> targ.y], FALSE,
                 screen) EXCEPT !.app = targ.appId])
  /\ Respond(handleError(error, ActionName(tool)))
  /\ UNCHANGED <<tool, targ, located, shot, requests, screen, ocrVars,
                 serverVars, driverVars>>

\* index.ts 292, 333: await driver.getScreenshot() throws in ensureDriver
CaptureNoDriver ==
  /\ tpc = "capture"
  /\ ~ensureDriver
  /\ Respond(handleError("DeviceConnectionError", ActionName(tool)))
  /\ UNCHANGED <<tool, targ, located, driverOps, shot, requests, screen,
                 ocrVars, serverVars, driverVars>>

\* index.ts 292, 333: the screenshot cannot be taken
CaptureFail(error) ==
  /\ tpc = "capture"
  /\ ensureDriver
  /\ driverOps' = Append(driverOps,
       DriverOp("getScreenshot", NoAt, FALSE, screen))
  /\ Respond(handleError(error, ActionName(tool)))
  /\ UNCHANGED <<tool, targ, located, shot, requests, screen, ocrVars,
                 serverVars, driverVars>>

\* index.ts 292-293, 333-334: the screenshot is taken and findTextBounds is
\* entered with it
CaptureOk(image) ==
  /\ tpc = "capture"
  /\ ensureDriver
  /\ driverOps' = Append(driverOps,
       DriverOp("getScreenshot", NoAt, TRUE, screen))
  /\ findTextBounds(image, targ.text)
  /\ tpc' = "locating"
  /\ UNCHANGED <<tool, targ, located, shot, response, requests, screen,
                 serverVars, driverVars>>

\* index.ts 318-320, 350-352: findTextBounds rejected; what sharp, the file
\* system and tesseract throw is no MobileSnapError
LocatedError ==
  /\ tpc = "locating"
  /\ pc = "done"
  /\ outcome = "error"
  /\ Respond(handleError("Error", ActionName(tool)))
  /\ ReleaseCall
  /\ UNCHANGED <<tool, targ, located, driverOps, shot, requests, screen,
                 serverVars, driverVars>>

\* a tap_text that taps although nothing was located
LocatedNullTapsAnyway ==
  /\ tpc = "locating"
  /\ pc = "done"
  /\ outcome = "null"
  /\ located' = NotFound
  /\ tpc' = IF tool = "tap_text" THEN "act" ELSE "responded"
  /\ response' = IF tool = "tap_text" THEN response
                 ELSE [NoResponse EXCEPT !.kind = "ok",
                         !.message = "not found", !.found = "no"]
  /\ ReleaseCall
  /\ UNCHANGED <<tool, targ, driverOps, shot, requests, screen, serverVars,
                 driverVars>>

\* index.ts 307-316 (find_text answers found: false) and 336-339 (tap_text
\* throws MobileSnapError 'Could not find text'): bounds is null
LocatedNull ==
  /\ tpc = "locating"
  /\ pc = "done"
  /\ outcome = "null"
  /\ located' = NotFound
  /\ Respond(IF tool = "tap_text"
             THEN handleError("MobileSnapError", ActionName(tool))
             ELSE [NoResponse EXCEPT !.kind = "ok", !.message = "not found",
                                     !.found = "no"])
  /\ ReleaseCall
  /\ UNCHANGED <<tool, targ, driverOps, shot, requests, screen, serverVars,
                 driverVars>>

\* index.ts 295-306 (find_text answers the centre) and 341-344 (tap_text goes
\* on to tap the centre): bounds were found
LocatedFound ==
  /\ tpc = "locating"
  /\ pc = "done"
  /\ outcome = "found"
  /\ located' = [found |-> TRUE, bounds |-> result]
  /\ IF tool = "tap_text"
     THEN /\ targ' = [targ EXCEPT !.x = Center(result).x,
                                  !.y = Center(result).y]
          /\ tpc' = "act"
          /\ UNCHANGED response
     ELSE /\ Respond([NoResponse EXCEPT !.kind = "ok", !.message = "found",
                        !.found = "yes", !.at = Center(result)])
          /\ UNCHANGED targ
  /\ ReleaseCall
  /\ UNCHANGED <<tool, driverOps, shot, requests, screen, serverVars,
                 driverVars>>

\* index.ts 112-113: captureAndFormatResponse cannot get the screenshot; the
\* handlers return its promise without awaiting it, so their catch is not
\* reached and the handler rejects
PostCaptureNoDriver ==
  /\ tpc = "post"
  /\ ~ensureDriver
  /\ Respond(Rejected("DeviceConnectionError"))
  /\ UNCHANGED <<tool, targ, located, driverOps, shot, requests, screen,
                 ocrVars, serverVars, driverVars>>

PostCaptureFail(error) ==
  /\ tpc = "post"
  /\ ensureDriver
  /\ driverOps' = Append(driverOps,
       DriverOp("getScreenshot", NoAt, FALSE, screen))
  /\ Respond(Rejected(error))
  /\ UNCHANGED <<tool, targ, located, shot, requests, screen, ocrVars,
                 serverVars, driverVars>>

\* a capture that answers with the picture taken before the action
PostCaptureStale(image) ==
  /\ tpc = "post"
  /\ ensureDriver
  /\ driverOps' = Append(driverOps,
       DriverOp("getScreenshot", NoAt, TRUE, screen - 1))
  /\ shot' = [ver |-> screen - 1, image |-> image]
  /\ tpc' = "optimize"
  /\ UNCHANGED <<tool, targ, located, response, requests, screen, ocrVars,
                 serverVars, driverVars>>

\* index.ts 112-113: const rawBuffer = await driver.getScreenshot()
PostCaptureOk(image) ==
  /\ tpc = "post"
  /\ ensureDriver
  /\ driverOps' = Append(driverOps,
       DriverOp("getScreenshot", NoAt, TRUE, screen))
  /\ shot' = [ver |-> screen, image |-> image]
  /\ tpc' = "optimize"
  /\ UNCHANGED <<tool, targ, located, response, requests, screen, ocrVars,
                 serverVars, driverVars>>

\* index.ts 114: optimizeImage rejects on a buffer sharp cannot decode
OptimizeFail ==
  /\ tpc = "optimize"
  /\ ~shot.image.decodable
  /\ Respond(Rejected("Error"))
  /\ UNCHANGED <<tool, targ, located, driverOps, shot, requests, screen,
                 ocrVars, serverVars, driverVars>>

\* index.ts 114-128: the text and the optimized picture are returned
OptimizeOk ==
  /\ tpc = "optimize"
  /\ shot.image.decodable
  /\ Respond(TextAndImage("confirmation", shot.ver))
  /\ UNCHANGED <<tool, targ, located, driverOps, shot, requests, screen,
                 ocrVars, serverVars, driverVars>>

ToolIdle ==
  /\ tool = None
  /\ targ = NoArgs
  /\ tpc = "idle"
  /\ located = NotFound
  /\ driverOps = <<>>
  /\ shot = NoShot
  /\ response = NoResponse
  /\ requests = 0
  /\ screen = 0

\* a server whose startup has finished, with or without a driver
\* the files ToolInit starts from, and the user may leave in their place
ToolConfigFiles ==
  {f \in ConfigFiles : f.content.platform = None /\ f.content.deviceId = None}

\* index.ts 91-94, README 52-65: mobile-pixel.config.json is rewritten while
\* the server runs, by configure_device or by the user
EditConfigFile(file) ==
  /\ mpc = "serving"
  /\ file # configFile
  /\ configFile' = file
  /\ UNCHANGED <<cliArgs, mpc, currentConfig, currentDriver, ocrVars,
                 toolVars, driverVars>>

ToolInit ==
  /\ OcrInit
  /\ img = NoImage
  /\ searchText = tMoon
  /\ ToolIdle
  /\ cliArgs = [platform |-> None, deviceId |-> None]
  /\ configFile \in ToolConfigFiles
  /\ mpc = "serving"
  /\ currentDriver \in {"null", "android"}
  /\ currentConfig = Config(IF currentDriver = "null" THEN "auto"
                            ELSE currentDriver, None, configFile.content.appId)
  /\ DriverIdle

DriverErrors == {"DeviceActionError", "Error"}

ToolNext ==
  \/ \E t \in Tools : \E a \in ToolArgs(t) : Request(t, a)
  \/ \E file \in ToolConfigFiles : EditConfigFile(file)
  \/ LaunchResolve
  \/ ActNoDriver
  \/ ActOk
  \/ \E e \in DriverErrors : ActFail(e)
  \/ CaptureNoDriver
  \/ \E e \in DriverErrors : CaptureFail(e)
  \/ \E image \in Images : CaptureOk(image)
  \/ ToBufferOk
  \/ ToBufferFail
  \/ WriteFileOk
  \/ WriteFileFail
  \/ CreateWorkerOk
  \/ CreateWorkerFail
  \/ \E data \in ToolOcrOutputs : RecognizeOk(data)
  \/ RecognizeFail
  \/ Terminate
  \/ LocatedError
  \/ LocatedNull
  \/ LocatedFound
  \/ PostCaptureNoDriver
  \/ \E e \in DriverErrors : PostCaptureFail(e)
  \/ \E image \in Images : PostCaptureOk(image)
  \/ OptimizeFail
  \/ OptimizeOk

ToolSpec == ToolInit /\ [][ToolNext]_vars

Next ==
  \/ \E image \in Images, text \in SearchTexts : Call(image, text)
  \/ ToBufferOk
  \/ ToBufferFail
  \/ WriteFileOk
  \/ WriteFileFail
  \/ CreateWorkerOk
  \/ CreateWorkerFail
  \/ \E data \in OcrOutputs : RecognizeOk(data)
  \/ RecognizeFail
  \/ Terminate

Init == OcrInit /\ ServerIdle /\ ToolIdle /\ DriverIdle

Spec == Init /\ [][Next]_vars

TypeOK ==
  /\ pc \in {"idle", "toBuffer", "writeFile", "createWorker", "recognize",
             "finally", "done"}
  /\ calls \in 0..MaxCalls
  /\ outcome \in {"none", "found", "null", "error"}
  /\ live \subseteq 1..created

\* ------------------------------------------- AndroidDriver (android.ts)
tAppId == <<"c", ".", "a">>
tOtherAppId == <<"o", ".", "b">>

\* mainActivity as the configuration file may give it: relative to the
\* package, or a whole component with its '/'
tDotMain == <<".", "M">>
tComponent == <<"c", ".", "a", "/", ".", "M">>
tForeignComponent == <<"x", "/", "N">>

MainActivities ==
  {Undefined}
  \cup {Defined(t) : t \in {<<>>, tDotMain, tComponent, tForeignComponent}}

AndroidConfigFiles ==
  {[state |-> "missing", content |-> NoConfig],
   [state |-> "invalid", content |-> NoConfig]}
  \cup {[state |-> "valid",
         content |-> [Config("android", None, None) EXCEPT !.mainActivity = m]]
          : m \in MainActivities}

DeviceIds == {"123", "456"}

\* what 'adb devices' prints after its first line: an id and a state per line
DeviceLines == [id : DeviceIds, state : {"device", "offline"}]

AdbDevicesOutputs ==
  {NoListing}
  \cup {Listing(ls) : ls \in UNION {[1..n -> DeviceLines] : n \in 0..MaxDevices}}

AndroidEnvs ==
  {[NoEnv EXCEPT !.adb = a, !.devices = d] :
     a \in BOOLEAN, d \in AdbDevicesOutputs}

Command(program, what, serial, arg) ==
  [program |-> program, what |-> what, serial |-> serial, arg |-> arg]

\* android.ts 93-98: getAdbArgs puts -s <deviceId> first when there is one
Adb(what, arg) == Command("adb", what, instance.deviceId, arg)

AndroidInstance(deviceId) ==
  [NoInstance EXCEPT !.platform = "android", !.deviceId = deviceId]

\* the call resolves
Return ==
  /\ dret' = [NoReturn EXCEPT !.kind = "returned"]
  /\ dpc' = "settled"

\* the call rejects
Throw(error, action) ==
  /\ dret' = [kind |-> "thrown", error |-> error, action |-> action]
  /\ dpc' = "settled"

DriverCallable ==
  /\ dpc \in {"idle", "settled"}
  /\ dcall.n < MaxDriverCalls

BeginCall(method, arg) ==
  /\ dcall' = [method |-> method, arg |-> arg, n |-> dcall.n + 1]
  /\ commands' = <<>>
  /\ dret' = NoReturn
  /\ dtmp' = NoTmp

\* android.ts 17-19: AndroidDriver.create is entered
AndroidCreate(deviceId) ==
  /\ DriverCallable
  /\ BeginCall("create", deviceId)
  /\ dpc' = "checkAdb"
  /\ UNCHANGED <<denv, instance, logs, proxyVars, ocrVars, serverVars,
                 toolVars>>

\* android.ts 19, 33-39: checkAdbAvailability, then the branch of 23-28
CheckAdbAvailability ==
  /\ dpc = "checkAdb"
  /\ commands' = Append(commands, Command("adb", "version", None, None))
  /\ IF denv.adb
     THEN /\ dpc' = IF dcall.arg # None THEN "validateDevice"
                    ELSE "detectDevice"
          /\ UNCHANGED dret
     ELSE Throw("ToolNotAvailableError", "adb")
  /\ UNCHANGED <<denv, dcall, dtmp, instance, logs, proxyVars, ocrVars,
                 serverVars, toolVars>>

\* android.ts 45-49: the ids of all the lines listed
ListedIds(lines) == {lines[i].id : i \in 1..Len(lines)}

\* android.ts 71-75: the ids of the lines that hold '\tdevice', in order
AttachedIds(lines) ==
  LET attached == SelectSeq(lines, LAMBDA l : l.state = "device")
  IN  [i \in 1..Len(attached) |-> attached[i].id]

\* a create that returns a driver although the device was not listed
ValidateDeviceLenient ==
  /\ dpc = "validateDevice"
  /\ commands' = Append(commands, Command("adb", "devices", None, None))
  /\ IF ~denv.devices.ok
     THEN Throw("DeviceConnectionError", "Failed to list Android devices")
          /\ UNCHANGED instance
     ELSE /\ instance' = AndroidInstance(dcall.arg)
          /\ Return
  /\ UNCHANGED <<denv, dcall, dtmp, logs, proxyVars, ocrVars, serverVars,
                 toolVars>>

\* android.ts 24, 30, 41-66: validateDevice, and the driver returned
ValidateDevice ==
  /\ dpc = "validateDevice"
  /\ commands' = Append(commands, Command("adb", "devices", None, None))
  /\ IF ~denv.devices.ok
     THEN Throw("DeviceConnectionError", "Failed to list Android devices")
          /\ UNCHANGED instance
     ELSE IF dcall.arg \notin ListedIds(denv.devices.lines)
     THEN Throw("DeviceConnectionError", "not found")
          /\ UNCHANGED instance
     ELSE /\ instance' = AndroidInstance(dcall.arg)
          /\ Return
  /\ UNCHANGED <<denv, dcall, dtmp, logs, proxyVars, ocrVars, serverVars,
                 toolVars>>

\* android.ts 26, 30, 68-91: detectDevice, and the driver returned
DetectDevice ==
  /\ dpc = "detectDevice"
  /\ commands' = Append(commands, Command("adb", "devices", None, None))
  /\ IF ~denv.devices.ok
     THEN Throw("DeviceConnectionError", "Failed to detect devices")
          /\ UNCHANGED instance
     ELSE LET devices == AttachedIds(denv.devices.lines)
          IN  IF Len(devices) = 0
              THEN Throw("DeviceConnectionError", "No Android devices found.")
                   /\ UNCHANGED instance
              ELSE IF Len(devices) > 1
              THEN Throw("DeviceConnectionError", "Multiple devices found")
                   /\ UNCHANGED instance
              ELSE /\ instance' = AndroidInstance(devices[1])
                   /\ Return
  /\ UNCHANGED <<denv, dcall, dtmp, logs, proxyVars, ocrVars, serverVars,
                 toolVars>>

\* android.ts 224-226: launchApp is entered on a driver create returned
AndroidLaunchApp(appId) ==
  /\ DriverCallable
  /\ instance.platform = "android"
  /\ BeginCall("launchApp", appId)
  /\ dpc' = "isAppRunning"
  /\ UNCHANGED <<denv, instance, logs, proxyVars, ocrVars, serverVars,
                 toolVars>>

\* android.ts 210-222, 226-227: isAppRunning asks pidof and is false when the
\* command fails
IsAppRunning(out) ==
  /\ dpc = "isAppRunning"
  /\ out \in {"pid", "nothing", Failed}
  /\ commands' = Append(commands, Adb("pidof", dcall.arg))
  /\ dtmp' = [dtmp EXCEPT !.isRunning = (out = "pid")]
  /\ dpc' = IF out = "pid" THEN "loadConfig" ELSE "monkey"
  /\ UNCHANGED <<denv, dcall, dret, instance, logs, proxyVars, ocrVars,
                 serverVars, toolVars>>

\* a component that always prefixes the package
ComponentAlwaysPrefixed(appId, mainActivity) ==
  appId \o <<"/">> \o mainActivity

\* android.ts 236-238: the component 'am start -n' is given
Component(appId, mainActivity) ==
  IF includes(mainActivity, <<"/">>) THEN mainActivity
  ELSE appId \o <<"/">> \o mainActivity

\* android.ts 232: config.mainActivity is truthy, neither undefined nor ''
Truthy(option) == option.defined /\ option.text # <<>>

\* android.ts 231-238: the configuration file is read for mainActivity
LaunchLoadConfig ==
  /\ dpc = "loadConfig"
  /\ LET config == loadConfig(configFile)
     IN  IF Truthy(config.mainActivity)
         THEN /\ dtmp' = [dtmp EXCEPT
                            !.component = Component(dcall.arg,
                                                    config.mainActivity.text)]
              /\ dpc' = "amStart"
         ELSE /\ dpc' = "monkey"
              /\ UNCHANGED dtmp
  /\ UNCHANGED <<denv, dcall, commands, dret, instance, logs, proxyVars,
                 ocrVars, serverVars, toolVars>>

\* android.ts 240-241, 258-264: am start -n <component>
AmStart(ok) ==
  /\ dpc = "amStart"
  /\ commands' = Append(commands, Adb("am start", dtmp.component))
  /\ IF ok THEN Return
     ELSE Throw("DeviceActionError", "launch_app")
  /\ UNCHANGED <<denv, dcall, dtmp, instance, logs, proxyVars, ocrVars,
                 serverVars, toolVars>>

\* android.ts 246-264: monkey -p <appId> -c android.intent.category.LAUNCHER 1
Monkey(ok) ==
  /\ dpc = "monkey"
  /\ commands' = Append(commands, Adb("monkey", dcall.arg))
  /\ IF ok THEN Return
     ELSE Throw("DeviceActionError", "launch_app")
  /\ UNCHANGED <<denv, dcall, dtmp, instance, logs, proxyVars, ocrVars,
                 serverVars, toolVars>>

AndroidInit ==
  /\ OcrInit
  /\ img = NoImage
  /\ searchText = tMoon
  /\ ToolIdle
  /\ cliArgs = [platform |-> None, deviceId |-> None]
  /\ configFile \in AndroidConfigFiles
  /\ mpc = "off"
  /\ currentConfig = NoConfig
  /\ currentDriver = "null"
  /\ logs = NoLogs
  /\ denv \in AndroidEnvs
  /\ dcall = NoDriverCall
  /\ dpc = "idle"
  /\ dtmp = NoTmp
  /\ commands = <<>>
  /\ dret = NoReturn
  /\ instance = NoInstance
  /\ confs = <<>>
  /\ driverOf = [id |-> 0, epoch |-> 0]
  /\ started = 0
  /\ epoch = 0
  /\ lastOp = NoOp

AndroidNext ==
  \/ \E deviceId \in DeviceIds \cup {None} : AndroidCreate(deviceId)
  \/ CheckAdbAvailability
  \/ ValidateDevice
  \/ DetectDevice
  \/ \E appId \in {tAppId, tOtherAppId} : AndroidLaunchApp(appId)
  \/ \E out \in {"pid", "nothing", Failed} : IsAppRunning(out)
  \/ LaunchLoadConfig
  \/ \E ok \in BOOLEAN : AmStart(ok)
  \/ \E ok \in BOOLEAN : Monkey(ok)

AndroidSpec == AndroidInit /\ [][AndroidNext]_vars

\* --------------------------------------------------- IOSDriver (ios.ts)
Udids == {"booted-uuid", "test-udid"}

\* a target of 'idb list-targets --json', a device of 'simctl list devices'
SimLines == [id : Udids, state : {"Booted", "Shutdown"}]

SimListings ==
  {NoListing}
  \cup {Listing(ls) : ls \in UNION {[1..n -> SimLines] : n \in 0..MaxDevices}}

\* idb describe: gives a density, gives none, or fails
Descriptions == {"density", "no density", Failed}

\* without idb none of its commands answers
IosEnvs ==
  {[NoEnv EXCEPT !.idb = TRUE, !.targets = t, !.describe = d, !.simctl = x] :
     t \in SimListings, d \in Descriptions, x \in SimListings}
  \cup {[NoEnv EXCEPT !.simctl = x] : x \in SimListings}

\* ios.ts 89, 102: the udids of the entries whose state is 'Booted', in order
Booted(lines) ==
  LET booted == SelectSeq(lines, LAMBDA l : l.state = "Booted")
  IN  [i \in 1..Len(booted) |-> booted[i].id]

\* ios.ts 61-63: the driver create returns
IosInstance(udid, hasIdb, density) ==
  [platform |-> "ios", deviceId |-> udid, hasIdb |-> hasIdb,
   density |-> density]

\* ios.ts 21-23: IOSDriver.create is entered
IosCreate(udid) ==
  /\ DriverCallable
  /\ dcall' = [method |-> "create", arg |-> udid, n |-> dcall.n + 1]
  /\ commands' = <<>>
  /\ dret' = NoReturn
  /\ dtmp' = [NoTmp EXCEPT !.detectedUdid = udid]
  /\ dpc' = "checkIdb"
  /\ UNCHANGED <<denv, instance, logs, proxyVars, ocrVars, serverVars,
                 toolVars>>

\* ios.ts 26-28, 50-53, 67-75: the soft check of idb
CheckIdbAvailability ==
  /\ dpc = "checkIdb"
  /\ commands' = Append(commands, Command("idb", "list-targets", None, None))
  /\ IF denv.idb
     THEN /\ dtmp' = [dtmp EXCEPT !.hasIdb = TRUE, !.idbOk = TRUE]
          /\ dpc' = IF dtmp.detectedUdid = None THEN "detectDevice"
                    ELSE "describe"
     ELSE /\ dtmp' = [dtmp EXCEPT !.hasIdb = FALSE]
          /\ dpc' = "fallback"
  /\ UNCHANGED <<denv, dcall, dret, instance, logs, proxyVars, ocrVars,
                 serverVars, toolVars>>

\* ios.ts 31-33, 78-94: detectDevice through idb; what it throws is caught at
\* 50-53, which sets hasIdb to false
IdbDetectDevice ==
  /\ dpc = "detectDevice"
  /\ commands' = Append(commands,
                        Command("idb", "list-targets --json", None, None))
  /\ IF denv.targets.ok /\ Len(Booted(denv.targets.lines)) = 1
     THEN /\ dtmp' = [dtmp EXCEPT
                        !.detectedUdid = Booted(denv.targets.lines)[1]]
          /\ dpc' = "describe"
     ELSE /\ dtmp' = [dtmp EXCEPT !.hasIdb = FALSE]
          /\ dpc' = "fallback"
  /\ UNCHANGED <<denv, dcall, dret, instance, logs, proxyVars, ocrVars,
                 serverVars, toolVars>>

\* ios.ts 35-48: the density lookup, whose failure is only warned about
Describe ==
  /\ dpc = "describe"
  /\ commands' = Append(commands,
                        Command("idb", "describe", dtmp.detectedUdid, None))
  /\ dtmp' = [dtmp EXCEPT
                !.density = IF denv.describe = "density" THEN 2 ELSE @]
  /\ dpc' = "fallback"
  /\ UNCHANGED <<denv, dcall, dret, instance, logs, proxyVars, ocrVars,
                 serverVars, toolVars>>

\* a fallback that never asks xcrun
FallbackWithoutXcrun ==
  /\ dpc = "fallback"
  /\ IF dtmp.detectedUdid = None
     THEN /\ Throw("DeviceConnectionError", "No booted iOS devices found")
          /\ UNCHANGED instance
     ELSE /\ instance' = IosInstance(dtmp.detectedUdid, dtmp.hasIdb,
                                     dtmp.density)
          /\ Return
  /\ UNCHANGED <<denv, dcall, dtmp, commands, logs, proxyVars, ocrVars,
                 serverVars, toolVars>>

\* ios.ts 55-65, 96-108: detection through xcrun when no udid is known and
\* idb is off, then the driver is returned
Fallback ==
  /\ dpc = "fallback"
  /\ IF dtmp.detectedUdid = None /\ ~dtmp.hasIdb
     THEN /\ commands' = Append(commands,
               Command("xcrun", "simctl list devices", None, None))
          /\ IF ~denv.simctl.ok
             THEN Throw("Error", "xcrun") /\ UNCHANGED instance
             ELSE IF Len(Booted(denv.simctl.lines)) # 1
             THEN Throw("DeviceConnectionError", "booted devices (xcrun)")
                  /\ UNCHANGED instance
             ELSE /\ instance' = IosInstance(Booted(denv.simctl.lines)[1],
                                             dtmp.hasIdb, dtmp.density)
                  /\ Return
     ELSE /\ instance' = IosInstance(dtmp.detectedUdid, dtmp.hasIdb,
                                     dtmp.density)
          /\ Return
          /\ UNCHANGED commands
  /\ UNCHANGED <<denv, dcall, dtmp, logs, proxyVars, ocrVars, serverVars,
                 toolVars>>

\* the operations of the driver that execute one command
IosMethods ==
  {"getScreenshot", "tap", "swipe", "inputText", "launchApp", "installApp",
   "uninstallApp"}

\* ios.ts 163, 178, 200: the operations that need idb
IdbOnly == {"tap", "swipe", "inputText"}

\* the action a failure of the operation is reported with
IosAction(method) ==
  CASE method = "getScreenshot" -> "screenshot"
    [] method = "inputText" -> "input"
    [] method = "launchApp" -> "launch_app"
    [] method = "installApp" -> "install_app"
    [] method = "uninstallApp" -> "uninstall_app"
    [] OTHER -> method

\* ios.ts 143, 241, 270, 287: this.udid || 'booted'
XcrunTarget == Or(instance.deviceId, "booted")

\* ios.ts 132-206, 239-246, 265-297: the command an operation executes
IosCommand(method) ==
  IF method = "launchApp" \/ ~instance.hasIdb
  THEN Command("xcrun", method, XcrunTarget, None)
  ELSE Command("idb", method, instance.deviceId, None)

\* ios.ts 132-206, 239-246, 265-297: one operation on the driver create
\* returned
IosOp(method, ok) ==
  /\ DriverCallable
  /\ instance.platform = "ios"
  /\ dcall' = [method |-> method, arg |-> None, n |-> dcall.n + 1]
  /\ dtmp' = NoTmp
  /\ IF method \in IdbOnly /\ ~instance.hasIdb
     THEN /\ commands' = <<>>
          /\ Throw("ToolNotAvailableError", "idb")
     ELSE /\ commands' = <<IosCommand(method)>>
          /\ IF ok THEN Return
             ELSE Throw("DeviceActionError", IosAction(method))
  /\ UNCHANGED <<denv, instance, logs, proxyVars, ocrVars, serverVars,
                 toolVars>>

IosInit ==
  /\ OcrInit
  /\ img = NoImage
  /\ searchText = tMoon
  /\ ToolIdle
  /\ ServerIdle
  /\ logs = NoLogs
  /\ denv \in IosEnvs
  /\ dcall = NoDriverCall
  /\ dpc = "idle"
  /\ dtmp = NoTmp
  /\ commands = <<>>
  /\ dret = NoReturn
  /\ instance = NoInstance
  /\ confs = <<>>
  /\ driverOf = [id |-> 0, epoch |-> 0]
  /\ started = 0
  /\ epoch = 0
  /\ lastOp = NoOp

IosNext ==
  \/ \E udid \in Udids \cup {None} : IosCreate(udid)
  \/ CheckIdbAvailability
  \/ IdbDetectDevice
  \/ Describe
  \/ Fallback
  \/ \E method \in IosMethods, ok \in BOOLEAN : IosOp(method, ok)

IosSpec == IosInit /\ [][IosNext]_vars

\* ------------------------- configure_device and ProxyDriver.reconfigure
\* index.ts 78-88: the arguments of configure_device and the newConfig made
\* of them
ConfigureArgs ==
  {Config("android", "cli-device", None), Config("auto", None, "com.arg.app")}

NoConf ==
  [pc |-> "save", config |-> NoConfig, platform |-> None, seq |-> 0,
   created |-> None, reconfigure |-> None, response |-> None,
   answeredWith |-> 0]

\* ProxyDriver 412-454: the device operations the ProxyDriver delegates
ProxyMethods ==
  {"getScreenshot", "tap", "swipe", "inputText", "home", "launchApp",
   "isAppRunning", "getAppLogs", "installApp", "uninstallApp", "resetApp"}

\* index.ts 82-88: a configure_device request arrives; requests are handled
\* as they arrive, an earlier one may still be waiting
ConfigureDevice(newConfig) ==
  /\ mpc = "serving"
  /\ started < MaxConfigures
  /\ started' = started + 1
  /\ confs' = Append(confs, [NoConf EXCEPT !.config = newConfig])
  /\ UNCHANGED <<driverOf, epoch, lastOp, logs, platformVars, ocrVars,
                 serverVars, toolVars>>

\* index.ts 91-94: { ...await loadConfig(), ...newConfig } is written; the
\* three keys of newConfig replace the file's, undefined ones are dropped
SaveConfigOk(id) ==
  /\ id \in 1..Len(confs)
  /\ confs[id].pc = "save"
  /\ configFile' =
       [state |-> "valid",
        content |-> [loadConfig(configFile) EXCEPT
                       !.platform = confs[id].config.platform,
                       !.deviceId = confs[id].config.deviceId,
                       !.appId = confs[id].config.appId]]
  /\ confs' = [confs EXCEPT ![id].pc = "reconfigure"]
  /\ UNCHANGED <<cliArgs, mpc, currentConfig, currentDriver, driverOf,
                 started, epoch, lastOp, logs, platformVars, ocrVars,
                 toolVars>>

\* index.ts 102-107: writing the file fails; 'Failed to configure'
SaveConfigFail(id) ==
  /\ id \in 1..Len(confs)
  /\ confs[id].pc = "save"
  /\ confs' = [confs EXCEPT ![id].pc = "done", ![id].response = "failed"]
  /\ UNCHANGED <<driverOf, started, epoch, lastOp, logs, platformVars,
                 ocrVars, serverVars, toolVars>>

\* a reconfigure that leaves the current driver in place while it works
ReconfigureStartKeepsDriver(id) ==
  /\ id \in 1..Len(confs)
  /\ confs[id].pc = "reconfigure"
  /\ currentConfig' = confs[id].config
  /\ epoch' = epoch + 1
  /\ confs' = [confs EXCEPT
       ![id].pc = IF confs[id].config.platform \in {None, "auto"}
                  THEN "detect" ELSE "create",
       ![id].platform = confs[id].config.platform,
       ![id].seq = epoch + 1,
       ![id].reconfigure = "running"]
  /\ UNCHANGED <<cliArgs, configFile, mpc, currentDriver, driverOf, started,
                 lastOp, logs, platformVars, ocrVars, toolVars>>

\* index.ts 97, ProxyDriver 351-361: reconfigure stores the configuration and
\* drops the current driver before its first await
ReconfigureStart(id) ==
  /\ id \in 1..Len(confs)
  /\ confs[id].pc = "reconfigure"
  /\ currentConfig' = confs[id].config
  /\ currentDriver' = "null"
  /\ driverOf' = [id |-> 0, epoch |-> epoch + 1]
  /\ epoch' = epoch + 1
  /\ confs' = [confs EXCEPT
       ![id].pc = IF confs[id].config.platform \in {None, "auto"}
                  THEN "detect" ELSE "create",
       ![id].platform = confs[id].config.platform,
       ![id].seq = epoch + 1,
       ![id].reconfigure = "running"]
  /\ UNCHANGED <<cliArgs, configFile, mpc, started, lastOp, logs,
                 platformVars, ocrVars, toolVars>>

\* ProxyDriver 358-360, 379-400: detectPlatform answers android or ios
DetectPlatform(id, platform) ==
  /\ id \in 1..Len(confs)
  /\ confs[id].pc = "detect"
  /\ platform \in {"android", "ios"}
  /\ confs' = [confs EXCEPT ![id].pc = "create", ![id].platform = platform]
  /\ UNCHANGED <<driverOf, started, epoch, lastOp, logs, platformVars,
                 ocrVars, serverVars, toolVars>>

\* ProxyDriver 364-368, index.ts 99-101: the platform's create resolves, its
\* driver becomes the current one, and the handler answers 'Configuration
\* updated'
CreateOk(id) ==
  /\ id \in 1..Len(confs)
  /\ confs[id].pc = "create"
  /\ currentDriver' = confs[id].platform
  /\ driverOf' = [id |-> id, epoch |-> epoch]
  /\ confs' = [confs EXCEPT
       ![id].pc = "done", ![id].created = "ok",
       ![id].reconfigure = "resolved", ![id].response = "updated",
       ![id].answeredWith = id]
  /\ UNCHANGED <<cliArgs, configFile, mpc, currentConfig, started, epoch,
                 lastOp, logs, platformVars, ocrVars, toolVars>>

\* ProxyDriver 364-376, index.ts 99-101: the platform's create rejects; the
\* error is logged and swallowed, reconfigure resolves, and the handler
\* answers 'Configuration updated'
CreateFail(id) ==
  /\ id \in 1..Len(confs)
  /\ confs[id].pc = "create"
  /\ confs' = [confs EXCEPT
       ![id].pc = "done", ![id].created = Failed,
       ![id].reconfigure = "resolved", ![id].response = "updated",
       ![id].answeredWith = driverOf.id]
  /\ UNCHANGED <<driverOf, started, epoch, lastOp, logs, platformVars,
                 ocrVars, serverVars, toolVars>>

\* ProxyDriver 402-454: a device operation is called on the ProxyDriver; it
\* reaches the current platform driver, or ensureDriver throws
ProxyOp(method) ==
  /\ mpc = "serving"
  /\ lastOp' = [method |-> method,
                outcome |-> IF ensureDriver THEN "delegated"
                            ELSE "DeviceConnectionError"]
  /\ UNCHANGED <<confs, driverOf, started, epoch, logs, platformVars,
                 ocrVars, serverVars, toolVars>>

\* the server after main(), with the driver of the startup configuration or
\* none
ProxyInit ==
  /\ OcrInit
  /\ img = NoImage
  /\ searchText = tMoon
  /\ ToolIdle
  /\ cliArgs = [platform |-> None, deviceId |-> None]
  /\ configFile = [state |-> "valid", content |-> Config("auto", None, None)]
  /\ mpc = "serving"
  /\ currentDriver \in {"null", "android"}
  /\ currentConfig = Config("auto", None, None)
  /\ DriverIdle

ProxyNext ==
  \/ \E newConfig \in ConfigureArgs : ConfigureDevice(newConfig)
  \/ \E id \in 1..MaxConfigures : SaveConfigOk(id)
  \/ \E id \in 1..MaxConfigures : SaveConfigFail(id)
  \/ \E id \in 1..MaxConfigures : ReconfigureStart(id)
  \/ \E id \in 1..MaxConfigures, platform \in {"android", "ios"} :
       DetectPlatform(id, platform)
  \/ \E id \in 1..MaxConfigures : CreateOk(id)
  \/ \E id \in 1..MaxConfigures : CreateFail(id)
  \/ \E method \in ProxyMethods : ProxyOp(method)

ProxySpec == ProxyInit /\ [][ProxyNext]_vars

\* ------------------------------------------------------- check_app_log
tBlank == <<" ">>
tHoMe == <<"h", "o", "M", "e">>

\* lines the log command prints for the tag
LogLines == {tHome, tHomeBuyerLower, tWorld}

\* the sequences of at most n members of S
SeqsUpTo(S, n) == UNION {[1..len -> S] : len \in 0..n}

\* stdout of the log command, split at '\n'
LogOutputs == SeqsUpTo(LogLines \cup {tBlank}, MaxLogLines)

\* index.ts 361: filter_text, optional
FilterTexts == {Undefined, Defined(<<>>), Defined(tHoMe)}

\* String.prototype.trim on the lines of the fixtures
trim(s) == SelectSeq(s, LAMBDA c : c # " ")

\* android.ts 284, ios.ts 259: stdout.split('\n').filter(line =>
\* line.trim().length > 0)
NonEmptyLines(stdout) == SelectSeq(stdout, LAMBDA line : Len(trim(line)) > 0)

\* index.ts 367-370: the lines that contain filter_text, when one is given
FilterLogs(lines, filter) ==
  IF Truthy(filter)
  THEN SelectSeq(lines, LAMBDA line :
         includes(toLowerCase(line), toLowerCase(filter.text)))
  ELSE lines

\* Array.prototype.reverse
reverse(s) == [i \in 1..Len(s) |-> s[Len(s) + 1 - i]]

\* index.ts 373: slice(-5)
RecentCount == 5

\* a variant that takes the first five lines
RecentLogsOldest(lines, filter) ==
  LET filteredLogs == FilterLogs(lines, filter)
  IN  reverse(SubSeq(filteredLogs, 1,
                     IF Len(filteredLogs) < RecentCount THEN Len(filteredLogs)
                     ELSE RecentCount))

\* index.ts 367-373: filteredLogs.slice(-5).reverse()
RecentLogs(lines, filter) ==
  LET filteredLogs == FilterLogs(lines, filter)
      from == IF Len(filteredLogs) > RecentCount
              THEN Len(filteredLogs) - RecentCount + 1 ELSE 1
  IN  reverse(SubSeq(filteredLogs, from, Len(filteredLogs)))

tNoLogsFound == "No logs found matching criteria."

\* index.ts 375-384: the text of the answer
LogResponse(recentLogs) ==
  [NoResponse EXCEPT
     !.kind = "ok",
     !.message = IF Len(recentLogs) > 0 THEN "recentLogs" ELSE tNoLogsFound]

\* index.ts 356-363: a check_app_log request arrives
CheckAppLog(filter) ==
  /\ mpc = "serving"
  /\ tpc \in {"idle", "responded"}
  /\ requests < MaxRequests
  /\ requests' = requests + 1
  /\ tool' = "check_app_log"
  /\ targ' = NoArgs
  /\ tpc' = "getAppLogs"
  /\ response' = NoResponse
  /\ logs' = [NoLogs EXCEPT !.filter = filter]
  /\ UNCHANGED <<located, driverOps, shot, screen, platformVars, proxyVars,
                 ocrVars, serverVars>>

\* index.ts 365, ProxyDriver 402-410, 434-436, index.ts 385-387: there is no
\* active driver; ensureDriver throws and handleError answers
GetAppLogsNoDriver ==
  /\ tool = "check_app_log"
  /\ tpc = "getAppLogs"
  /\ ~ensureDriver
  /\ Respond(handleError("DeviceConnectionError", "Check app log"))
  /\ logs' = [logs EXCEPT !.state = "thrown"]
  /\ UNCHANGED <<tool, targ, located, driverOps, shot, requests, screen,
                 platformVars, proxyVars, ocrVars, serverVars>>

\* android.ts 267-285, ios.ts 248-259, index.ts 365-384: the log command
\* prints stdout; its non-empty lines are filtered, the last five are
\* reversed and joined into the answer
GetAppLogsOk ==
  /\ tool = "check_app_log"
  /\ tpc = "getAppLogs"
  /\ ensureDriver
  /\ \E stdout \in LogOutputs :
       LET lines == NonEmptyLines(stdout)
           recentLogs == RecentLogs(lines, logs.filter)
       IN  /\ logs' = [logs EXCEPT !.state = "read", !.lines = lines,
                                   !.recent = recentLogs]
           /\ Respond(LogResponse(recentLogs))
  /\ driverOps' = Append(driverOps,
       DriverOp("getAppLogs", NoAt, TRUE, screen))
  /\ UNCHANGED <<tool, targ, located, shot, requests, screen, platformVars,
                 proxyVars, ocrVars, serverVars>>

\* android.ts 285-290, ios.ts 260-262, index.ts 365-384: the log command
\* fails; getAppLogs returns [] and the handler answers as for no lines
GetAppLogsFail ==
  /\ tool = "check_app_log"
  /\ tpc = "getAppLogs"
  /\ ensureDriver
  /\ logs' = [logs EXCEPT !.state = "failed", !.lines = <<>>,
                          !.recent = RecentLogs(<<>>, logs.filter)]
  /\ Respond(LogResponse(RecentLogs(<<>>, logs.filter)))
  /\ driverOps' = Append(driverOps,
       DriverOp("getAppLogs", NoAt, FALSE, screen))
  /\ UNCHANGED <<tool, targ, located, shot, requests, screen, platformVars,
                 proxyVars, ocrVars, serverVars>>

\* the server after main(), with or without a driver
LogInit ==
  /\ OcrInit
  /\ img = NoImage
  /\ searchText = tMoon
  /\ ToolIdle
  /\ cliArgs = [platform |-> None, deviceId |-> None]
  /\ configFile = [state |-> "valid", content |-> Config("auto", None, None)]
  /\ mpc = "serving"
  /\ currentDriver \in {"null", "android"}
  /\ currentConfig = Config("auto", None, None)
  /\ DriverIdle

LogNext ==
  \/ \E filter \in FilterTexts : CheckAppLog(filter)
  \/ GetAppLogsNoDriver
  \/ GetAppLogsOk
  \/ GetAppLogsFail

LogSpec == LogInit /\ [][LogNext]_vars

\* --------------------------------------------- vocabulary of the claims
\* What the specification says of lines, candidates and variants, used only
\* to state the claims below; none of it is computed by findTextBounds.
Settled == pc = "done" /\ outcome \in {"found", "null"}

RECURSIVE ClaimedCollapse(_)
ClaimedCollapse(s) ==
  IF Len(s) = 0 THEN <<>>
  ELSE IF Len(s) >= 2 /\ s[1] = " " /\ s[2] = " " THEN ClaimedCollapse(Tail(s))
  ELSE <<s[1]>> \o ClaimedCollapse(Tail(s))

ClaimedNormalize(s) == ClaimedCollapse(toLowerCase(s))

ClaimedLineMatches(line, text) ==
  includes(ClaimedNormalize(line.text), ClaimedNormalize(text))

Abs(n) == IF n < 0 THEN -n ELSE n

ClaimedLengthDelta(line, text) == Abs(Len(line.text) - Len(text))

\* Math.round(n / d) for n >= 0, d > 0
ClaimedRound(n, d) == (2 * n + d) \div (2 * d)

\* the remap of section 4.3 with scale = num / den
ClaimedRemap(bbox, num, den, offsetY) ==
  [x |-> ClaimedRound(bbox.x0 * den, num),
   y |-> ClaimedRound(bbox.y0 * den, num) + offsetY,
   width |-> ClaimedRound((bbox.x1 - bbox.x0) * den, num),
   height |-> ClaimedRound((bbox.y1 - bbox.y0) * den, num)]

\* the recognized lines, and those the specification counts as candidates
RecognizedLines == LinesOf(ocr)

ClaimedCandidates ==
  {i \in 1..Len(RecognizedLines) :
     ClaimedLineMatches(RecognizedLines[i], searchText)}

\* every recognized line is one word carrying the line's text and box, so
\* that matching by line and matching by word see the same entries
OneWordLines ==
  \A i \in 1..Len(RecognizedLines) :
    LET l == RecognizedLines[i]
    IN  l.words = Present(<<Word(l.text, l.bbox)>>)

\* ------------------------------------------------------------------ claims

\* C1: the box of a recognized line is reported through the variant's scale
\* and offset: x = round(x0/scale), y = round(y0/scale) + offsetY, width =
\* round((x1-x0)/scale), height = round((y1-y0)/scale).  With a recognizer
\* that reports the one matching line b for whatever image it is given, the
\* bottom-most candidate is the one of the bottom crop (scale = 2000/width,
\* offsetY = floor(0.6 * height)), so the call resolves with b remapped
\* through it: (20,40,220,100) on a 1000x2000 screenshot gives
\* {x:10, y:1220, width:100, height:30} (stated where the line is a single
\* word and was found, so that only the reported box is in question).
C1_RemapThroughScaleAndOffset ==
  (Settled /\ outcome = "found" /\ OneWordLines
     /\ Len(RecognizedLines) = 1 /\ ClaimedCandidates = {1})
  => result = ClaimedRemap(RecognizedLines[1].bbox, 2000, img.width,
                           (img.height * 6) \div 10)

\* C2: the buffer given to the recognizer is the full image, neither resized
\* nor cropped (scale = 1, offsetY = 0), and the box of the matched entry is
\* reported unchanged: x = x0, y = y0, width = x1 - x0, height = y1 - y0.
C2_IdentityRemap ==
  (pc = "done" /\ outcome = "found")
  => \E i \in 1..Len(VisitedWords(ocr)) :
       LET w == VisitedWords(ocr)[i]
       IN  /\ WordMatches(w, searchText)
           /\ result.x = w.bbox.x0
           /\ result.y = w.bbox.y0
           /\ result.width = w.bbox.x1 - w.bbox.x0
           /\ result.height = w.bbox.y1 - w.bbox.y0

C2_Witness ==
  /\ pc = "done"
  /\ outcome = "found"
  /\ searchText = tWorldLower
  /\ result = [x |-> 60, y |-> 10, width |-> 40, height |-> 20]

\* C3: the result is a candidate of smallest lengthDelta among all matching
\* lines, and it is null exactly when there is no candidate (stated where
\* every line is a single word, so that the candidates are the same entries
\* whether lines or words are matched).
C3_SmallestLengthDelta ==
  (Settled /\ OneWordLines)
  => /\ (outcome = "null") <=> (ClaimedCandidates = {})
     /\ outcome = "found" =>
          \E i \in ClaimedCandidates :
            /\ result = Bounds(RecognizedLines[i].bbox)
            /\ \A j \in ClaimedCandidates :
                 ClaimedLengthDelta(RecognizedLines[i], searchText)
                   <= ClaimedLengthDelta(RecognizedLines[j], searchText)

\* C4: of two candidates with equal lengthDelta the one with the larger y is
\* selected, so the result is never a candidate that has an equally long
\* candidate below it.
C4_BottomMostOnTie ==
  (Settled /\ OneWordLines /\ outcome = "found")
  => \A i, j \in ClaimedCandidates :
       (/\ ClaimedLengthDelta(RecognizedLines[i], searchText)
             = ClaimedLengthDelta(RecognizedLines[j], searchText)
        /\ RecognizedLines[i].bbox.y0 < RecognizedLines[j].bbox.y0)
       => result # Bounds(RecognizedLines[i].bbox)

\* C5: a text is found if and only if some recognized line, lower-cased and
\* with whitespace runs collapsed, contains the phrase normalized the same
\* way; matching is by whole lines.
C5_LineContainment ==
  Settled => ((outcome = "found") <=> (ClaimedCandidates # {}))

\* C6: one failed recognition does not abort the search: the call does not
\* reject with the recognizer's error because of a single failure.
C6_SingleFailureIsolated ==
  (pc = "done"
     /\ Cardinality({i \in 1..Len(recognized) : recognized[i] = "failed"}) = 1)
  => outcome # "error"

\* C7: empty recognition results end in "not found" (null); a recognizer that
\* raises every time it is invoked ends the call in an error, never in null.
C7_NotFoundVersusFailure ==
  (pc = "done" /\ Len(recognized) > 0)
  => /\ (\A i \in 1..Len(recognized) : recognized[i] = "failed")
          => (outcome = "error" /\ errKind = "recognize")
     /\ ((\A i \in 1..Len(recognized) : recognized[i] = "ok")
           /\ Len(RecognizedLines) = 0)
          => outcome = "null"
     /\ outcome = "null"
          => \E i \in 1..Len(recognized) : recognized[i] = "ok"

C7_Witness ==
  /\ pc = "done"
  /\ recognized = <<"failed">>
  /\ outcome = "error"

\* C8: the worker is constructed inside the call and terminated before the
\* call completes, on every exit path after its construction; no worker is
\* live between calls and no call uses the worker of another call.
C8_WorkerScopedToCall ==
  /\ pc \in {"idle", "done"} => live = {}
  /\ pc \in {"toBuffer", "writeFile", "createWorker"} => (live = {} /\ worker = 0)
  /\ pc \in {"recognize", "finally"} => (live = {worker} /\ worker = created)
  /\ created <= calls

C8_Witness ==
  /\ pc = "done"
  /\ calls = 2
  /\ created = 2
  /\ errKind = "recognize"
  /\ live = {}

\* C9: a screenshot that cannot be decoded or preprocessed fails the call at
\* once: no recognition is attempted, no worker is constructed, and the
\* outcome is an error, not null.
C9_DecodeFailureIsFatal ==
  ~img.decodable
  => /\ pc \in {"idle", "toBuffer", "done"}
     /\ pc = "done" => (outcome = "error" /\ errKind = "decode")
     /\ recognized = <<>>
     /\ worker = 0

C9_Witness ==
  /\ pc = "done"
  /\ ~img.decodable
  /\ outcome = "error"
  /\ errKind = "decode"

\* C10: the result does not depend on the order in which the recognized
\* entries are accumulated: searching the same lines in any other order
\* gives the same outcome and the same box.
C10_OrderIndependent ==
  Settled
  => \A p \in Permutations(1..Len(RecognizedLines)) :
       LET ls == [i \in 1..Len(RecognizedLines) |-> RecognizedLines[p[i]]]
           ws == Flatten([i \in 1..Len(ls) |-> WordsOfLine(ls[i])])
       IN  SearchWords(ws, searchText).bounds = result

\* C11: exactly four variants are generated, in the order threshold,
\* inverted_threshold, inverted_bottom_crop, inverted_top_crop, with (scale,
\* offsetY) = (1, 0), (1, 0), (2000/w, floor(0.6 h)), (2000/w, 0).
ClaimedVariants(image) ==
  <<Variant("threshold", 1, 1, 0),
    Variant("inverted_threshold", 1, 1, 0),
    Variant("inverted_bottom_crop", 2000, image.width,
            (image.height * 6) \div 10),
    Variant("inverted_top_crop", 2000, image.width, 0)>>

C11_FourVariants ==
  (pc = "done" /\ img.decodable /\ img.width > 0 /\ Len(recognized) > 0)
  => processed = ClaimedVariants(img)

\* C12: when the recognizer reports boxes that lie inside the image it was
\* given, the reported box lies inside the screenshot; nothing is clamped, so
\* a match whose recognized boxes all lie outside is reported outside.
InsideImage(bbox, image) ==
  /\ 0 <= bbox.x0 /\ bbox.x0 <= bbox.x1 /\ bbox.x1 <= image.width
  /\ 0 <= bbox.y0 /\ bbox.y0 <= bbox.y1 /\ bbox.y1 <= image.height

ResultInsideScreenshot ==
  /\ 0 <= result.x
  /\ 0 <= result.y
  /\ result.x + result.width <= img.width
  /\ result.y + result.height <= img.height

C12_BoxInsideScreenshot ==
  (pc = "done" /\ outcome = "found")
  => LET ws == VisitedWords(ocr)
     IN  /\ (\A i \in 1..Len(ws) : InsideImage(ws[i].bbox, img))
              => ResultInsideScreenshot
         /\ (\A i \in 1..Len(ws) : ~InsideImage(ws[i].bbox, img))
              => ~ResultInsideScreenshot

C12_Witness ==
  /\ pc = "done"
  /\ outcome = "found"
  /\ img = [decodable |-> TRUE, width |-> 1000, height |-> 2000]
  /\ result = [x |-> 900, y |-> 1900, width |-> 100, height |-> 100]

\* C13: with the single recognized line 'Hello World' at (10,10,100,30),
\* searching 'world' is found, and the candidate of a variant with scale = 1
\* and offsetY = 0 is {x:10, y:10, width:90, height:20}.
C13_HelloWorldScenario ==
  (Settled /\ searchText = tWorldLower /\ Len(RecognizedLines) = 1
     /\ img = [decodable |-> TRUE, width |-> 1000, height |-> 2000]
     /\ RecognizedLines[1].text = tHelloWorld
     /\ RecognizedLines[1].bbox = Box(10, 10, 100, 30))
  => /\ outcome = "found"
     /\ (\A i \in 1..Len(processed) :
           processed[i].scaleNum = processed[i].scaleDen
             /\ processed[i].offsetY = 0)
          => result = [x |-> 10, y |-> 10, width |-> 90, height |-> 20]

\* C14 as stated: when every recognition succeeds and no recognized text
\* (line or word) contains the search phrase, the result is null.
NoTextContainsPhrase ==
  /\ \A i \in 1..Len(RecognizedLines) :
       ~ClaimedLineMatches(RecognizedLines[i], searchText)
  /\ \A i \in 1..Len(VisitedWords(ocr)) :
       ~ClaimedLineMatches(VisitedWords(ocr)[i], searchText)

AllRecognitionsSucceeded ==
  /\ Len(recognized) > 0
  /\ \A i \in 1..Len(recognized) : recognized[i] = "ok"

HasGaps(data) ==
  /\ data.blocks.present
  /\ Len(data.blocks.items) = 2
  /\ ~data.blocks.items[1].paragraphs.present

LinesAfterGaps(data) == data.blocks.items[2].paragraphs.items[2].lines.items

C15_MissingLevelsAreEmpty ==
  (pc = "done" /\ AllRecognitionsSucceeded)
  => /\ outcome \in {"found", "null"}
     /\ ~ocr.blocks.present => outcome = "null"
     /\ HasGaps(ocr) =>
          LET ls == LinesAfterGaps(ocr)
              ws == Flatten([i \in 1..Len(ls) |-> WordsOfLine(ls[i])])
          IN  /\ (outcome = "found") = SearchWords(ws, searchText).found
              /\ result = SearchWords(ws, searchText).bounds

C15_Witness ==
  /\ pc = "done"
  /\ outcome = "found"
  /\ HasGaps(ocr)

\* C16: a call leaves nothing behind: no file is written and no state
\* outlives the call.
C16_NothingLeftBehind ==
  pc = "done" => (debugFile = FALSE /\ live = {})

Taps == SelectSeq(driverOps, LAMBDA op : op.method = "tap")

\* (round(x + width/2), round(y + height/2))
ClaimedCenter(bounds) ==
  [x |-> ClaimedRound(2 * bounds.x + bounds.width, 2),
   y |-> ClaimedRound(2 * bounds.y + bounds.height, 2)]

\* C18: tap_text taps only after the text was located. It first takes a
\* screenshot and searches it; when the text is not found it asks for no tap
\* and answers with an error; when it is found it asks for exactly one tap, at
\* (round(x + width/2), round(y + height/2)) of the bounds returned, and the
\* picture of a successful answer was taken after that tap.
C18_TapsOnlyAfterLocated ==
  tool = "tap_text" =>
    /\ Len(Taps) <= 1
    /\ Len(Taps) = 1 =>
         /\ located.found
         /\ Len(driverOps) >= 2
         /\ driverOps[1].method = "getScreenshot"
         /\ driverOps[1].ok
         /\ driverOps[2] = Taps[1]
         /\ Taps[1].at = ClaimedCenter(located.bounds)
    /\ (tpc = "responded" /\ ~located.found) =>
         /\ Taps = <<>>
         /\ response.isError
    /\ (tpc = "responded" /\ located.found) => Len(Taps) = 1
    /\ response.kind = "ok" =>
         /\ response.hasImage
         /\ Len(driverOps) = 3
         /\ driverOps[2].ok
         /\ driverOps[3].method = "getScreenshot"
         /\ driverOps[3].ok
         /\ driverOps[3].ver = driverOps[2].ver
         /\ driverOps[1].ver < driverOps[2].ver
         /\ response.imageVer = driverOps[2].ver

C18_Witness ==
  /\ tool = "tap_text"
  /\ response.kind = "ok"
  /\ located.found
  /\ located.bounds.width % 2 = 1
  /\ Len(Taps) = 1

\* C19: an action tool (tap, swipe, type_text, home, launch_app, tap_text)
\* that succeeds answers with a text and a picture, and the picture was taken
\* after the driver action completed: it shows what the action left on the
\* screen, never what was there before.
C19_ScreenshotAfterAction ==
  (tool \in ActionTools /\ response.kind = "ok") =>
    /\ ~response.isError
    /\ response.message # None
    /\ response.hasImage
    /\ \E i \in 1..(Len(driverOps) - 1) :
         /\ driverOps[i].method = DriverMethod(tool)
         /\ driverOps[i].ok
         /\ i + 1 = Len(driverOps)
         /\ driverOps[i + 1].method = "getScreenshot"
         /\ driverOps[i + 1].ok
         /\ response.imageVer = driverOps[i].ver
         /\ response.imageVer = screen
         /\ \A j \in 1..(i - 1) : driverOps[j].ver < response.imageVer

C19_Witness ==
  /\ tool = "launch_app"
  /\ response.kind = "ok"
  /\ requests = MaxRequests
  /\ screen >= 2

\* what the configuration file gives when main() reads it
FileGiven == IF configFile.state = "valid" THEN configFile.content ELSE NoConfig

\* C20: at startup the command line wins over the configuration file, and the
\* file over the defaults: a platform or device given on the command line is
\* the one the driver is configured with whatever the file holds, the file's
\* value is used only when the command line gives none, and with neither the
\* platform is android and no device is chosen.
C20_CliThenFileThenDefaults ==
  mpc \in {"creating", "serving"} =>
    /\ currentConfig.deviceId = Or(cliArgs.deviceId, FileGiven.deviceId)
    /\ cliArgs.platform # None => currentConfig.platform = cliArgs.platform
    /\ (cliArgs.platform = None /\ FileGiven.platform # None) =>
         currentConfig.platform = FileGiven.platform
    /\ (cliArgs.platform = None /\ FileGiven.platform = None
        /\ mpc = "serving") =>
         currentDriver \in {"null", "android"}

\* the launch commands the running call has executed
LaunchCommands ==
  SelectSeq(commands, LAMBDA c : c.what \in {"am start", "monkey"})

\* mainActivity as the configuration file gives it
ClaimedMainActivity ==
  IF configFile.state = "valid" THEN configFile.content.mainActivity
  ELSE Undefined

ClaimedConfigured ==
  ClaimedMainActivity.defined /\ Len(ClaimedMainActivity.text) > 0

\* mainActivity itself when it contains '/', else appId + '/' + mainActivity
ClaimedComponent(appId, mainActivity) ==
  IF \E i \in 1..Len(mainActivity) : mainActivity[i] = "/"
  THEN mainActivity
  ELSE [i \in 1..(Len(appId) + 1 + Len(mainActivity)) |->
          IF i <= Len(appId) THEN appId[i]
          ELSE IF i = Len(appId) + 1 THEN "/"
          ELSE mainActivity[i - Len(appId) - 1]]

\* C21: AndroidDriver.launchApp executes one launch command per call: 'am
\* start -n <component>' when the app is running and a mainActivity is
\* configured, the monkey launcher in every other case; the component is
\* mainActivity itself when it holds a '/', else appId/mainActivity; a failure
\* is a DeviceActionError of action 'launch_app'.
C21_OneLaunchCommand ==
  dcall.method = "launchApp" =>
    /\ Len(LaunchCommands) <= 1
    /\ dpc = "settled" =>
         /\ Len(LaunchCommands) = 1
         /\ LaunchCommands[1] = commands[Len(commands)]
         /\ LaunchCommands[1].serial = instance.deviceId
         /\ IF dtmp.isRunning /\ ClaimedConfigured
            THEN /\ LaunchCommands[1].what = "am start"
                 /\ LaunchCommands[1].arg =
                      ClaimedComponent(dcall.arg, ClaimedMainActivity.text)
            ELSE /\ LaunchCommands[1].what = "monkey"
                 /\ LaunchCommands[1].arg = dcall.arg
         /\ dret.kind \in {"returned", "thrown"}
         /\ dret.kind = "thrown" =>
              /\ dret.error = "DeviceActionError"
              /\ dret.action = "launch_app"

C21_Witness ==
  /\ dcall.method = "launchApp"
  /\ dpc = "settled"
  /\ dret.kind = "returned"
  /\ dtmp.isRunning
  /\ ClaimedMainActivity = Defined(tForeignComponent)
  /\ LaunchCommands = <<Adb("am start", tForeignComponent)>>

\* the lines of 'adb devices' in state 'device'
ClaimedAttached ==
  {i \in 1..Len(denv.devices.lines) : denv.devices.lines[i].state = "device"}

\* C22: AndroidDriver.create checks ADB before it asks for devices and throws
\* ToolNotAvailableError without it. With no deviceId it returns a driver for
\* the only line in state 'device' and throws DeviceConnectionError when there
\* is none or more than one; with a deviceId it returns a driver exactly when
\* 'adb devices' lists that id, else DeviceConnectionError. A driver returned
\* is always bound to a device.
C22_CreateBoundToDevice ==
  /\ (instance # NoInstance /\ instance.platform = "android") =>
       instance.deviceId \in DeviceIds
  /\ dcall.method = "create" =>
       /\ commands # <<>> => commands[1].what = "version"
       /\ Len(commands) >= 2 => denv.adb
       /\ dpc = "settled" =>
            IF ~denv.adb
            THEN /\ dret.kind = "thrown"
                 /\ dret.error = "ToolNotAvailableError"
                 /\ Len(commands) = 1
            ELSE IF dcall.arg = None
            THEN IF denv.devices.ok /\ Cardinality(ClaimedAttached) = 1
                 THEN /\ dret.kind = "returned"
                      /\ \E i \in ClaimedAttached :
                           instance.deviceId = denv.devices.lines[i].id
                 ELSE /\ dret.kind = "thrown"
                      /\ dret.error = "DeviceConnectionError"
                      /\ (denv.devices.ok /\ Cardinality(ClaimedAttached) > 1)
                           => dret.action = "Multiple devices found"
            ELSE IF /\ denv.devices.ok
                    /\ \E i \in 1..Len(denv.devices.lines) :
                         denv.devices.lines[i].id = dcall.arg
                 THEN /\ dret.kind = "returned"
                      /\ instance.deviceId = dcall.arg
                 ELSE /\ dret.kind = "thrown"
                      /\ dret.error = "DeviceConnectionError"

C22_Witness ==
  /\ dcall.method = "create"
  /\ dpc = "settled"
  /\ dcall.arg = None
  /\ dret.kind = "returned"
  /\ denv.devices.ok
  /\ Len(denv.devices.lines) = 2
  /\ Cardinality(ClaimedAttached) = 1

\* the app id the claim expects a handler to use, from the request and the
\* configuration file as it is now
ClaimedTargetAppId ==
  IF targ.appId # None THEN targ.appId ELSE FileGiven.appId

\* C23: launch_app, check_app_status, uninstall_app and reset_app act on the
\* app_id of the request when it is given and otherwise on the appId the
\* configuration file holds when the call is made; with neither they answer
\* with the error 'App ID is required' and call no driver operation.
C23_AppIdResolvedAtCall ==
  /\ [][(tpc = "config" /\ tpc' # "config") =>
          IF ClaimedTargetAppId = None
          THEN /\ tpc' = "responded"
               /\ response'.isError
               /\ response'.message = "ValidationError"
               /\ response'.prefix = None
               /\ driverOps' = <<>>
          ELSE /\ tpc' = "act"
               /\ targ'.appId = ClaimedTargetAppId]_vars
  /\ [](tool \in AppIdTools =>
          /\ \A i \in 1..Len(driverOps) :
               driverOps[i].method = DriverMethod(tool) =>
                 /\ tpc # "config"
                 /\ driverOps[i].app = targ.appId
                 /\ driverOps[i].app # None
          /\ response.message = "ValidationError" => driverOps = <<>>)

C23_Witness ==
  /\ tool = "reset_app"
  /\ tpc = "responded"
  /\ response.kind = "ok"
  /\ currentConfig.appId = None
  /\ configFile.content.appId = "com.file.app"
  /\ Len(driverOps) = 1
  /\ driverOps[1].method = "resetApp"
  /\ driverOps[1].app = "com.file.app"

\* C27: every tool handler ends a failure of a driver operation, the
\* screenshot and image optimization after a successful action included, in a
\* response with isError = true and a text, never in a rejected handler; the
\* text is the error's own message for a MobileSnapError and '<action> failed:
\* <message>' otherwise.
C27_ErrorsAlwaysAnswered ==
  tpc = "responded" =>
    /\ response.kind \in {"ok", "error"}
    /\ response.kind = "error" =>
         /\ response.isError
         /\ response.message # None
         /\ response.prefix = IF response.message \in MobileSnapErrors THEN None
                              ELSE ActionName(tool)
    /\ (\E i \in 1..Len(driverOps) : ~driverOps[i].ok) =>
         response.kind = "error"
    /\ response.kind = "ok" => ~response.isError

\* the devices xcrun lists as booted
ClaimedXcrunBooted ==
  {i \in 1..Len(denv.simctl.lines) : denv.simctl.lines[i].state = "Booted"}

\* C24: an IOSDriver works without IDB. When IDB is unavailable, create still
\* returns a driver, for the udid given or the one booted device xcrun lists;
\* on a driver without IDB getScreenshot, launchApp, installApp and
\* uninstallApp execute xcrun, and tap, swipe and inputText fail with
\* ToolNotAvailableError before any command is executed.
C24_WorksWithoutIdb ==
  /\ (dcall.method = "create" /\ dpc = "settled" /\ ~denv.idb) =>
       /\ \A i \in 2..Len(commands) : commands[i].program = "xcrun"
       /\ IF dcall.arg # None
          THEN /\ dret.kind = "returned"
               /\ instance = IosInstance(dcall.arg, FALSE, 1)
          ELSE IF denv.simctl.ok /\ Cardinality(ClaimedXcrunBooted) = 1
          THEN /\ dret.kind = "returned"
               /\ ~instance.hasIdb
               /\ \E i \in ClaimedXcrunBooted :
                    instance.deviceId = denv.simctl.lines[i].id
          ELSE dret.kind = "thrown"
  /\ (dcall.method \in IosMethods /\ dpc = "settled" /\ ~instance.hasIdb) =>
       IF dcall.method \in {"tap", "swipe", "inputText"}
       THEN /\ commands = <<>>
            /\ dret.kind = "thrown"
            /\ dret.error = "ToolNotAvailableError"
       ELSE /\ Len(commands) = 1
            /\ commands[1].program = "xcrun"
            /\ commands[1].serial \in {instance.deviceId, "booted"}
            /\ dret.kind = "thrown" => dret.error = "DeviceActionError"

C24_Witness ==
  /\ dcall.method = "getScreenshot"
  /\ dpc = "settled"
  /\ dret.kind = "returned"
  /\ ~denv.idb
  /\ ~instance.hasIdb
  /\ instance.deviceId \in Udids
  /\ commands = <<Command("xcrun", "getScreenshot", instance.deviceId, None)>>

\* C28: the driver IOSDriver.create returns has hasIdb = true exactly when the
\* IDB availability check succeeded; a later step of creation that fails (no
\* booted device or several listed by idb, the density lookup) does not turn
\* tap, swipe and inputText off.
C28_HasIdbIffCheckSucceeded ==
  (dcall.method = "create" /\ dpc = "settled" /\ dret.kind = "returned") =>
    instance.hasIdb = denv.idb

ClaimedLastStarted == CHOOSE id \in 1..Len(confs) : confs[id].seq = epoch

\* C26: when every ProxyDriver.reconfigure call has completed, whatever their
\* interleaving, the active driver is the one created for the configuration
\* in currentConfig, that of the call that started last, or there is no active
\* driver; a call that started earlier and finishes later does not leave its
\* driver in place for a newer configuration.
C26_DriverMatchesCurrentConfig ==
  (epoch > 0 /\ \A id \in 1..Len(confs) : confs[id].pc = "done") =>
     /\ currentConfig = confs[ClaimedLastStarted].config
     /\ \/ currentDriver = "null"
        \/ /\ driverOf.id \in 1..Len(confs)
           /\ confs[driverOf.id].config = currentConfig
           /\ currentDriver = confs[driverOf.id].platform
           /\ confs[driverOf.id].config.platform \in {"auto", currentDriver}

\* C29: configure_device answers 'Configuration updated' only when the driver
\* of the new configuration is the active one as it answers; when that driver
\* cannot be initialised the answer is an error, so that the tool call after a
\* success answer does not fail with 'No active device driver'.
C29_UpdatedMeansActive ==
  \A id \in 1..Len(confs) :
    /\ confs[id].response = "updated" =>
         /\ confs[id].created = "ok"
         /\ confs[id].answeredWith = id
    /\ confs[id].created = Failed => confs[id].response = "failed"

\* whether the claim's filter lets a line pass: the line contains the filter
\* text somewhere, letters compared without regard to case
ClaimedSameLetter(a, b) ==
  \/ a = b
  \/ {a, b} \in {{"H", "h"}, {"M", "m"}, {"B", "b"}, {"W", "w"}}

ClaimedPasses(line, filter) ==
  \/ ~filter.defined
  \/ \E at \in 0..(Len(line) - Len(filter.text)) :
       \A k \in 1..Len(filter.text) :
         ClaimedSameLetter(line[at + k], filter.text[k])

\* the positions of the driver's lines that pass the filter
ClaimedPassing == {i \in 1..Len(logs.lines) : ClaimedPasses(logs.lines[i], logs.filter)}

\* the k-th newest of them
ClaimedNewest(k) ==
  CHOOSE i \in ClaimedPassing :
    Cardinality({j \in ClaimedPassing : j > i}) = k - 1

\* C30: check_app_log answers with at most five log lines: the last five, in
\* the driver's order, of the lines that contain filter_text without regard
\* to case (of all lines without a filter), newest first; it answers 'No logs
\* found matching criteria.' exactly when no line passes the filter; and a
\* failure of the driver's log command gives the empty list, not an error.
C30_LastFiveNewestFirst ==
  (tool = "check_app_log" /\ tpc = "responded"
     /\ logs.state \in {"read", "failed"}) =>
    /\ Len(logs.recent) <= 5
    /\ Len(logs.recent) =
         IF Cardinality(ClaimedPassing) < 5 THEN Cardinality(ClaimedPassing)
         ELSE 5
    /\ \A k \in 1..Len(logs.recent) :
         logs.recent[k] = logs.lines[ClaimedNewest(k)]
    /\ response.kind = "ok"
    /\ ~response.isError
    /\ (response.message = tNoLogsFound) <=> (ClaimedPassing = {})
    /\ logs.state = "failed" =>
         (logs.lines = <<>> /\ response.message = tNoLogsFound)

C30_Witness ==
  /\ tool = "check_app_log"
  /\ tpc = "responded"
  /\ logs.state = "read"
  /\ logs.filter = Defined(tHoMe)
  /\ logs.lines = <<tHome, tHomeBuyerLower, tHomeBuyerLower, tHome,
                    tHomeBuyerLower, tHome>>
  /\ logs.recent = <<tHome, tHomeBuyerLower, tHome, tHomeBuyerLower,
                     tHomeBuyerLower>>
  /\ response.message = "recentLogs"

====
